---- MODULE Spec2Model ----
(***************************************************************************)
(* Model of the race-result reconciliation bot (src/bot.py).               *)
(*                                                                         *)
(* Strings are modelled as tuples of one-character strings so that         *)
(* str.strip(), str.lower(), re.sub(r"[^\d]", "", s), int(s) and str(n)    *)
(* are computed, not assumed.  The sheet is a sparse map from (row, col)   *)
(* to the cell's text; an empty cell is absent from the map.               *)
(***************************************************************************)
EXTENDS Integers, Sequences, FiniteSets, TLC

VARIABLES
    sheet,          \* worksheet "T": (row, col) -> text of the non-empty cells
    fmt,            \* text colour of the formatted cells: (row, col) -> "grey" | "red"
    pc,             \* position of the bot inside process_image / write_results
    data,           \* the extraction result being reconciled
    rennen,         \* race number of the current race box
    block,          \* block returned by resolve_block, None before it returns
    shift_i,        \* number of update_cell calls shift_block has made
    ndone,          \* number of images handed to process_image so far
    hist,           \* grid labels of the records write_results has written, oldest first
    last_result,    \* outcome of the latest process_image ("running" until it ends)
    sheet0,         \* the sheet when the current process_image began
    fmt0,           \* the cell colours when the current process_image began
    upfail,         \* a call_gemini of the current process_image raised
    sheetR,         \* the sheet when resolve_block returned
    ncrash,         \* number of process restarts so far
    gemini_2nd_run, \* GEMINI_2ND_RUN: 0 never, 1 on delta errors, 2 always verify
    now,            \* local time, minutes since midnight of day 0
    gemini_blocked_until,  \* None or the minute the quota block ends
    q,              \* coordinate query: <<block, position, field>>
    qcell,          \* get_cell(rennen, q)
    rets,           \* values returned by the calls of the function under study
    inbox,          \* channel messages scan_channel has not dealt with, in history order
    blocked_call,   \* an upstream call was started while the quota block was in force
    tasks,          \* the scan_channel tasks on_ready has created, each with its position
    processing_ids, \* processing_ids: ids of the messages process_image is working on
    posted          \* number of screenshots users have posted so far

\* the scan tasks of the event loop and what they share
pool == <<tasks, processing_ids, posted>>

\* the state of scan_channel

scan == <<inbox, blocked_call, pool>>

\* the state of the specifications that call single functions, and of scan_channel
aux == <<q, qcell, rets, scan>>

vars == <<sheet, fmt, pc, data, rennen, block, shift_i, ndone, hist, last_result,
          sheet0, fmt0, upfail, sheetR, ncrash, gemini_2nd_run, now, gemini_blocked_until,
          aux>>

----------------------------------------------------------------------------
(* Strings *)

EmptyStr == <<>>

UpperChars == <<"A","B","C","D","E","F","G","H","I","J","K","L","M",
                "N","O","P","Q","R","S","T","U","V","W","X","Y","Z">>
LowerChars == <<"a","b","c","d","e","f","g","h","i","j","k","l","m",
                "n","o","p","q","r","s","t","u","v","w","x","y","z">>
DigitChars == <<"0","1","2","3","4","5","6","7","8","9">>

IsSpace(c) == c \in {" ", "\t", "\n"}
IsDigit(c) == \E i \in 1..10 : DigitChars[i] = c
DigitVal(c) == (CHOOSE i \in 1..10 : DigitChars[i] = c) - 1

lower_char(c) ==
    IF \E i \in 1..26 : UpperChars[i] = c
    THEN LowerChars[CHOOSE i \in 1..26 : UpperChars[i] = c]
    ELSE c

\* str.lower()
lower(s) == [i \in 1..Len(s) |-> lower_char(s[i])]

RECURSIVE lstrip(_)
lstrip(s) == IF s # <<>> /\ IsSpace(Head(s)) THEN lstrip(Tail(s)) ELSE s

RECURSIVE rstrip(_)
rstrip(s) ==
    IF s # <<>> /\ IsSpace(s[Len(s)]) THEN rstrip(SubSeq(s, 1, Len(s) - 1)) ELSE s

\* str.strip()
strip(s) == rstrip(lstrip(s))

\* re.sub(r"[^\d]", "", s)
digits_of(s) == SelectSeq(s, IsDigit)

\* int(s) for a non-empty digit string
RECURSIVE int_of(_)
int_of(s) ==
    IF s = <<>> THEN 0
    ELSE 10 * int_of(SubSeq(s, 1, Len(s) - 1)) + DigitVal(s[Len(s)])

\* str(n) for n >= 0: the text a cell shows for a number written into it
RECURSIVE str_of(_)
str_of(n) ==
    IF n < 10 THEN <<DigitChars[n + 1]>>
    ELSE str_of(n \div 10) \o <<DigitChars[(n % 10) + 1]>>

----------------------------------------------------------------------------
(* Sheet layout *)

COL_OFFSET_PER_RACE == 14
ROW_OFFSET_PER_GRID == 20
FIRST_DATA_ROW      == 5
FIRST_COL_RACE1     == 2
FASTEST_LAP_ROW     == 3

Fields == {"grid_label", "position", "driver", "team", "car", "racetime",
           "laps", "fl_driver", "fl_time"}

REL(field) ==
    CASE field = "grid_label" -> 0
      [] field = "position"   -> 1
      [] field = "driver"     -> 2
      [] field = "team"       -> 3
      [] field = "car"        -> 4
      [] field = "racetime"   -> 5
      [] field = "laps"       -> 6
      [] field = "fl_driver"  -> 4
      [] field = "fl_time"    -> 5

\* a variant whose races are only as wide as the columns a record fills
col_start_narrow(r) == FIRST_COL_RACE1 + (r - 1) * REL("laps")

col_start(r) == FIRST_COL_RACE1 + (r - 1) * COL_OFFSET_PER_RACE

row_start_short(b) == FIRST_DATA_ROW + b * (ROW_OFFSET_PER_GRID - 1)
row_start(b) == FIRST_DATA_ROW + b * ROW_OFFSET_PER_GRID

get_cell(r, b, position, field) ==
    <<row_start(b) + (position - 1), col_start(r) + REL(field)>>

get_grid_label_cell(r, b) == <<row_start(b), col_start(r) + REL("grid_label")>>

Blocks    == 0..3
Positions == 1..ROW_OFFSET_PER_GRID
Races     == {1, 7}

----------------------------------------------------------------------------
(* The worksheet *)

EmptySheet == [x \in {} |-> EmptyStr]

\* sheet.cell(r, c).value or ""
cell_value(s, c) == IF c \in DOMAIN s THEN s[c] ELSE EmptyStr

\* sheet.update_cell(r, c, v): writing "" empties the cell
update_cell(s, c, v) ==
    IF v = EmptyStr
    THEN (IF c \in DOMAIN s THEN [x \in (DOMAIN s) \ {c} |-> s[x]] ELSE s)
    ELSE (c :> v) @@ s

\* sheet.batch_update(...): one request writing every cell of the batch
batch_update(s, batch) ==
    LET val(c) == IF c \in DOMAIN batch THEN batch[c] ELSE s[c]
        dom    == {c \in (DOMAIN s) \cup (DOMAIN batch) : val(c) # EmptyStr}
    IN  [c \in dom |-> val(c)]

read_grid_label(s, r, b) == lower(strip(cell_value(s, get_grid_label_cell(r, b))))

----------------------------------------------------------------------------
(* Grid-block resolution *)

S_1  == <<"1">>
S_2  == <<"2">>
S_2a == <<"2", "a">>
S_2b == <<"2", "b">>
S_3  == <<"3">>

ShiftFields  == <<"driver", "car", "racetime", "laps">>
ShiftLastPos == 20

\* number of (source, destination) cell pairs shift_block moves
NShiftPairs == 1 + ShiftLastPos * Len(ShiftFields)
\* number of update_cell calls shift_block makes
NShiftSteps == 2 * NShiftPairs

\* the pairs of a loop over range(0, 20)
shift_pair_from_zero(r, src, dst, k) ==
    IF k = 1
    THEN <<get_grid_label_cell(r, src), get_grid_label_cell(r, dst)>>
    ELSE LET pos   == (k - 2) \div Len(ShiftFields)
             field == ShiftFields[((k - 2) % Len(ShiftFields)) + 1]
         IN  <<get_cell(r, src, pos, field), get_cell(r, dst, pos, field)>>

\* the k-th (source cell, destination cell) pair, in the order of the code:
\* the label cell, then for pos in 1..20, for field in ShiftFields
shift_pair(r, src, dst, k) ==
    IF k = 1
    THEN <<get_grid_label_cell(r, src), get_grid_label_cell(r, dst)>>
    ELSE LET pos   == ((k - 2) \div Len(ShiftFields)) + 1
             field == ShiftFields[((k - 2) % Len(ShiftFields)) + 1]
         IN  <<get_cell(r, src, pos, field), get_cell(r, dst, pos, field)>>

\* a relocation that empties the source cell before writing the destination
shift_step_clear_first(s, r, src, dst, i) ==
    LET pr == shift_pair(r, src, dst, (i + 1) \div 2)
    IN  IF i % 2 = 1
        THEN update_cell(s, pr[1], EmptyStr)
        ELSE update_cell(s, pr[2], cell_value(s, pr[1]))

\* a relocation that leaves the label of the source block in place
shift_step_keep_label(s, r, src, dst, i) ==
    LET pr == shift_pair(r, src, dst, (i + 1) \div 2)
    IN  IF i % 2 = 1
        THEN update_cell(s, pr[2], cell_value(s, pr[1]))
        ELSE IF i = 2 THEN s ELSE update_cell(s, pr[1], EmptyStr)

\* a relocation that leaves the laps column where it is
shift_step_without_laps(s, r, src, dst, i) ==
    LET k  == (i + 1) \div 2
        pr == shift_pair(r, src, dst, k)
    IN  IF k > 1 /\ ShiftFields[((k - 2) % Len(ShiftFields)) + 1] = "laps" THEN s
        ELSE IF i % 2 = 1
        THEN update_cell(s, pr[2], cell_value(s, pr[1]))
        ELSE update_cell(s, pr[1], EmptyStr)

\* the sheet after the i-th update_cell of shift_block (i in 1..NShiftSteps):
\* odd i writes the destination cell, even i empties the source cell
shift_step(s, r, src, dst, i) ==
    LET pr == shift_pair(r, src, dst, (i + 1) \div 2)
    IN  IF i % 2 = 1
        THEN update_cell(s, pr[2], cell_value(s, pr[1]))
        ELSE update_cell(s, pr[1], EmptyStr)

\* the sheet after the update_cell calls lo..hi of shift_block, in this order:
\* the calls lo..mid first, then the calls mid+1..hi on their result
RECURSIVE shift_range(_, _, _, _, _, _)
shift_range(s, r, src, dst, lo, hi) ==
    IF lo > hi THEN s
    ELSE IF lo = hi THEN shift_step(s, r, src, dst, lo)
    ELSE CHOOSE t \in {shift_range(half, r, src, dst, ((lo + hi) \div 2) + 1, hi) :
                          half \in {shift_range(s, r, src, dst, lo, (lo + hi) \div 2)}} : TRUE

\* the sheet after the first n update_cell calls of shift_block
shift_upto(s, r, src, dst, n) == shift_range(s, r, src, dst, 1, n)

shift_block(s, r, src, dst) == shift_upto(s, r, src, dst, NShiftSteps)

\* a resolver without relocation
resolve_block_never_shifts(s, r, grid_label) == FALSE

\* a resolver that relocates block 2 for "2b" whatever block 2 holds
resolve_block_shifts_any(s, r, grid_label) == lower(strip(grid_label)) = S_2b

\* resolve_block relocates block 2 first
resolve_block_shifts(s, r, grid_label) ==
    /\ lower(strip(grid_label)) = S_2b
    /\ read_grid_label(s, r, 2) = S_3

\* a resolver that compares the stored label without normalising it
resolve_block_ret_raw(s, r, grid_label) ==
    LET gl == lower(strip(grid_label))
        label_block2 == cell_value(s, get_grid_label_cell(r, 2))
    IN  IF gl = S_1 THEN 0
        ELSE IF gl \in {S_2, S_2a} THEN 1
        ELSE IF gl = S_3 THEN (IF label_block2 = S_2b THEN 3 ELSE 2)
        ELSE 2

\* a resolver that goes by the digit of the label alone
resolve_block_ret_by_digit(s, r, grid_label) ==
    LET gl == lower(strip(grid_label))
    IN  IF gl = S_1 THEN 0
        ELSE IF gl \in {S_2, S_2a, S_2b} THEN 1
        ELSE 2

\* the block resolve_block returns
resolve_block_ret(s, r, grid_label) ==
    LET gl == lower(strip(grid_label))
        label_block2 == read_grid_label(s, r, 2)
    IN  IF gl = S_1 THEN 0
        ELSE IF gl \in {S_2, S_2a} THEN 1
        ELSE IF gl = S_3 THEN (IF label_block2 = S_2b THEN 3 ELSE 2)
        ELSE 2

\* the cells resolve_block reads: none before the returns for "1", "2" and
\* "2a"; then the label cell of block 2; then the source cells of shift_block
resolve_block_reads(s, r, grid_label) ==
    LET gl == lower(strip(grid_label))
    IN  IF gl = S_1 \/ gl \in {S_2, S_2a} THEN {}
        ELSE {get_grid_label_cell(r, 2)} \cup
             (IF resolve_block_shifts(s, r, grid_label)
              THEN {shift_pair(r, 2, 3, k)[1] : k \in 1..NShiftPairs}
              ELSE {})

\* the sheet resolve_block leaves behind
resolve_block_sheet(s, r, grid_label) ==
    IF resolve_block_shifts(s, r, grid_label) THEN shift_block(s, r, 2, 3) ELSE s

----------------------------------------------------------------------------
(* Reference tables *)

\* rows of DB_drvr: column C (name), column K (team), column DB (GT7 name)
DriverRows ==
    << [name |-> <<"A","l">>, team |-> <<"T","1">>, gt7 |-> <<"a","l","9">>],
       [name |-> <<"B","o">>, team |-> EmptyStr,    gt7 |-> EmptyStr],
       [name |-> <<"C","y">>, team |-> <<"T","2">>, gt7 |-> <<"B","o">>] >>

\* load_driver_list: driver_map, keyed by the lower-cased table name
driver_map ==
    LET rows == {i \in 1..Len(DriverRows) : strip(DriverRows[i].name) # EmptyStr}
        key(i) == lower(strip(DriverRows[i].name))
        last(k) == CHOOSE i \in rows : key(i) = k /\ \A j \in rows : key(j) = k => j <= i
    IN  [k \in {key(i) : i \in rows} |->
            [name |-> strip(DriverRows[last(k)].name),
             team |-> strip(DriverRows[last(k)].team)]]

\* load_driver_list: gt7_name_map, keyed by the lower-cased GT7 name
gt7_name_map ==
    LET rows == {i \in 1..Len(DriverRows) :
                    /\ strip(DriverRows[i].name) # EmptyStr
                    /\ strip(DriverRows[i].gt7) # EmptyStr}
        key(i) == lower(strip(DriverRows[i].gt7))
        last(k) == CHOOSE i \in rows : key(i) = k /\ \A j \in rows : key(j) = k => j <= i
    IN  [k \in {key(i) : i \in rows} |->
            [name |-> strip(DriverRows[last(k)].name),
             team |-> strip(DriverRows[last(k)].team)]]

\* load_car_list: the canonical names of DB_tech
car_list == << <<"C","a","r"," ","A">>, <<"C","a","r"," ","B">> >>

\* load_car_list: Car_Translate, game name (lower-cased) -> table name
car_translate_map ==
    [k \in { <<"g","t"," ","a">> } |-> <<"C","a","r"," ","A">>]

----------------------------------------------------------------------------
(* Time tokens *)

\* z.upper() == "DNF"
is_dnf(z) == lower(z) = <<"d","n","f">>

\* re.match(r"^[-:,\.]+$", z)
is_separators(z) ==
    z # <<>> /\ \A i \in 1..Len(z) : z[i] \in {"-", ":", ",", "."}

\* length of the leading run of digits
RECURSIVE lead_digits(_)
lead_digits(z) ==
    IF z # <<>> /\ IsDigit(Head(z)) THEN 1 + lead_digits(Tail(z)) ELSE 0

LapWords == { <<"r","u","n","d","e">>, <<"r","u","n","d","e","n">>,
              <<"l","a","p">>, <<"l","a","p","s">> }

\* the lap pattern without re.IGNORECASE
is_laps_cased(z) ==
    LET n == lead_digits(z)
    IN  n >= 1 /\ lstrip(SubSeq(z, n + 1, Len(z)))
                    \in { <<"R","u","n","d","e">>, <<"R","u","n","d","e","n">>,
                          <<"L","a","p">>, <<"L","a","p","s">> }

\* re.match(r"^(\d+)\s*(Runden?|Laps?)$", z, re.IGNORECASE)
is_laps(z) ==
    LET n == lead_digits(z)
    IN  n >= 1 /\ lower(lstrip(SubSeq(z, n + 1, Len(z)))) \in LapWords

None == 0 - 1

\* a clean_time that reads the leading digits only
clean_time_leading(zeit) ==
    LET z == strip(zeit)
    IN  IF zeit = EmptyStr THEN [racetime |-> None, laps |-> None]
        ELSE IF is_dnf(z) \/ is_separators(z) THEN [racetime |-> None, laps |-> None]
        ELSE IF is_laps(z)
             THEN [racetime |-> None, laps |-> int_of(SubSeq(z, 1, lead_digits(z)))]
        ELSE IF digits_of(z) # <<>>
             THEN [racetime |-> int_of(SubSeq(z, 1, lead_digits(z))), laps |-> None]
        ELSE [racetime |-> None, laps |-> None]

\* clean_time: [racetime, laps], each an integer or None
clean_time(zeit) ==
    LET z == strip(zeit)
    IN  IF zeit = EmptyStr THEN [racetime |-> None, laps |-> None]
        ELSE IF is_dnf(z) \/ is_separators(z) THEN [racetime |-> None, laps |-> None]
        ELSE IF is_laps(z)
             THEN [racetime |-> None, laps |-> int_of(SubSeq(z, 1, lead_digits(z)))]
        ELSE IF digits_of(z) # <<>>
             THEN [racetime |-> int_of(digits_of(z)), laps |-> None]
        ELSE [racetime |-> None, laps |-> None]

\* dict.get(key, "")
get(f, key) == IF key \in DOMAIN f THEN f[key] ELSE EmptyStr

\* sorted(fahrer_list, key=lambda x: x["position"]): stable
RECURSIVE sort_by_position(_)
sort_by_position(fl) ==
    IF fl = <<>> THEN <<>>
    ELSE LET rest == sort_by_position(SubSeq(fl, 1, Len(fl) - 1))
             x    == fl[Len(fl)]
             k    == Cardinality({i \in 1..Len(rest) : rest[i].position <= x.position})
         IN  SubSeq(rest, 1, k) \o <<x>> \o SubSeq(rest, k + 1, Len(rest))

\* a scan that accepts a racetime equal to the one before
RECURSIVE delta_scan_strict(_, _)
delta_scan_strict(sl, n) ==
    IF n = 0 THEN [errors |-> {}, prev |-> None]
    ELSE LET before == delta_scan_strict(sl, n - 1)
             f      == sl[n]
             rt     == clean_time(get(f, "zeit")).racetime
         IN  IF f.position = 1 \/ rt = None THEN before
             ELSE [errors |-> IF before.prev # None /\ rt < before.prev
                              THEN before.errors \cup {f.position}
                              ELSE before.errors,
                   prev   |-> rt]

\* a scan whose baseline stays where it is when a position is flagged
RECURSIVE delta_scan_keeps_baseline(_, _)
delta_scan_keeps_baseline(sl, n) ==
    IF n = 0 THEN [errors |-> {}, prev |-> None]
    ELSE LET before == delta_scan_keeps_baseline(sl, n - 1)
             f      == sl[n]
             rt     == clean_time(get(f, "zeit")).racetime
         IN  IF f.position = 1 \/ rt = None THEN before
             ELSE IF before.prev # None /\ rt <= before.prev
             THEN [errors |-> before.errors \cup {f.position}, prev |-> before.prev]
             ELSE [errors |-> before.errors, prev |-> rt]

\* validate_deltas over the sorted list: [errors, prev_delta] after the first n entries
RECURSIVE delta_scan(_, _)
delta_scan(sl, n) ==
    IF n = 0 THEN [errors |-> {}, prev |-> None]
    ELSE LET before == delta_scan(sl, n - 1)
             f      == sl[n]
             rt     == clean_time(get(f, "zeit")).racetime
         IN  IF f.position = 1 \/ rt = None THEN before
             ELSE [errors |-> IF before.prev # None /\ rt <= before.prev
                              THEN before.errors \cup {f.position}
                              ELSE before.errors,
                   prev   |-> rt]

validate_deltas(fl) == delta_scan(sort_by_position(fl), Len(fl)).errors

----------------------------------------------------------------------------
(* write_results *)

\* data["grid"] or data["fahrer"] raises KeyError (before resolve_block)
missing_head(d) == ~({"grid", "fahrer"} \subseteq DOMAIN d)

\* x["position"], fahrer["name"] or fahrer["auto"] raises KeyError
\* (in validate_deltas or in the loop, both after resolve_block)
missing_driver_key(d) ==
    \E i \in 1..Len(d.fahrer) :
        ~({"position", "name", "auto"} \subseteq DOMAIN d.fahrer[i])

grid_label_of(d) == strip(d.grid)

\* driver lookup that asks the GT7 names before the table names
resolve_driver_gt7_first(name_raw) ==
    LET name_key == lower(name_raw)
    IN  IF name_key \in DOMAIN gt7_name_map
        THEN [name |-> gt7_name_map[name_key].name,
              team |-> gt7_name_map[name_key].team, known |-> TRUE]
        ELSE IF name_key \in DOMAIN driver_map
        THEN [name |-> driver_map[name_key].name,
              team |-> driver_map[name_key].team, known |-> TRUE]
        ELSE [name |-> name_raw, team |-> EmptyStr, known |-> FALSE]

\* driver lookup: table name first, then GT7 name, else the raw name
resolve_driver(name_raw) ==
    LET name_key == lower(name_raw)
    IN  IF name_key \in DOMAIN driver_map
        THEN [name |-> driver_map[name_key].name,
              team |-> driver_map[name_key].team, known |-> TRUE]
        ELSE IF name_key \in DOMAIN gt7_name_map
        THEN [name |-> gt7_name_map[name_key].name,
              team |-> gt7_name_map[name_key].team, known |-> TRUE]
        ELSE [name |-> name_raw, team |-> EmptyStr, known |-> FALSE]

\* car lookup through Car_Translate
resolve_car(auto_raw) ==
    LET k    == lower(auto_raw)
        auto == IF k \in DOMAIN car_translate_map THEN car_translate_map[k] ELSE auto_raw
    IN  [auto |-> auto,
         unbekannt |-> auto = auto_raw /\ k \notin DOMAIN car_translate_map]

num_or_empty(n) == IF n # None THEN str_of(n) ELSE EmptyStr

\* the five cells one driver contributes to the batch
driver_writes(r, b, f) ==
    LET t == clean_time(get(f, "zeit"))
    IN  (get_cell(r, b, f.position, "driver")   :> resolve_driver(f.name).name)
     @@ (get_cell(r, b, f.position, "team")     :> resolve_driver(f.name).team)
     @@ (get_cell(r, b, f.position, "car")      :> resolve_car(f.auto).auto)
     @@ (get_cell(r, b, f.position, "racetime") :> num_or_empty(t.racetime))
     @@ (get_cell(r, b, f.position, "laps")     :> num_or_empty(t.laps))

\* batch after the first n drivers of the sorted list; a later driver
\* overwrites the entries of an earlier one at the same address
RECURSIVE batch_rows(_, _, _, _, _)
batch_rows(sl, r, b, gl, n) ==
    IF n = 0 THEN (get_grid_label_cell(r, b) :> gl)
    ELSE driver_writes(r, b, sl[n]) @@ batch_rows(sl, r, b, gl, n - 1)

batch_of(d, r, b) ==
    batch_rows(sort_by_position(d.fahrer), r, b, grid_label_of(d), Len(d.fahrer))

\* red cells without those of the delta check
red_cells_of_no_deltas(d, r, b) ==
    LET fl == d.fahrer
    IN  {get_cell(r, b, fl[i].position, "driver") :
            i \in {j \in 1..Len(fl) : ~resolve_driver(fl[j].name).known}}
        \cup {get_cell(r, b, fl[i].position, "car") :
            i \in {j \in 1..Len(fl) : resolve_car(fl[j].auto).unbekannt}}

\* red_cells: driver cells of unknown names, car cells of unknown cars,
\* racetime cells of the positions validate_deltas returned
red_cells_of(d, r, b) ==
    LET fl == d.fahrer
        de == validate_deltas(fl)
    IN  {get_cell(r, b, fl[i].position, "driver") :
            i \in {j \in 1..Len(fl) : ~resolve_driver(fl[j].name).known}}
        \cup {get_cell(r, b, fl[i].position, "car") :
            i \in {j \in 1..Len(fl) : resolve_car(fl[j].auto).unbekannt}}
        \cup {get_cell(r, b, fl[i].position, "racetime") :
            i \in {j \in 1..Len(fl) : fl[j].position \in de}}

\* the warnings one driver adds, in the order of the loop body
driver_warnings(f, de) ==
    (IF resolve_driver(f.name).known THEN <<>>
     ELSE <<[kind |-> "Fahrer nicht in Fahrerliste", pos |-> f.position, arg |-> f.name]>>)
    \o (IF resolve_car(f.auto).unbekannt
        THEN <<[kind |-> "Auto nicht erkannt", pos |-> f.position,
                arg |-> resolve_car(f.auto).auto]>>
        ELSE <<>>)
    \o (IF f.position \in de
        THEN <<[kind |-> "Zeit ist zu pruefen", pos |-> f.position,
                arg |-> resolve_driver(f.name).name]>>
        ELSE <<>>)
    \o (IF clean_time(get(f, "zeit")).laps # None
        THEN <<[kind |-> "Zeit muss manuell eingetragen werden", pos |-> f.position,
                arg |-> resolve_driver(f.name).name]>>
        ELSE <<>>)

\* warnings after the first n drivers of the sorted list
RECURSIVE warnings_rows(_, _, _)
warnings_rows(sl, de, n) ==
    IF n = 0 THEN <<>>
    ELSE warnings_rows(sl, de, n - 1) \o driver_warnings(sl[n], de)

\* the warnings write_results returns
warnings_of(d) ==
    warnings_rows(sort_by_position(d.fahrer), validate_deltas(d.fahrer), Len(d.fahrer))

all_cells_of(d, r, b) ==
    {get_cell(r, b, d.fahrer[i].position, f) :
        i \in 1..Len(d.fahrer), f \in {"driver", "team", "car", "racetime", "laps"}}
    \cup {get_grid_label_cell(r, b)}

\* batch_format_cells(sheet, grey_cells, red_cells)
batch_format_cells(fm, grey, red) ==
    [c \in (DOMAIN fm) \cup grey \cup red |->
        IF c \in red THEN "red" ELSE IF c \in grey THEN "grey" ELSE fm[c]]

\* fastest lap of the record after the first n drivers of the sorted list
RECURSIVE fastest_scan(_, _)
fastest_scan(sl, n) ==
    IF n = 0 THEN [time |-> None, driver |-> EmptyStr]
    ELSE LET before == fastest_scan(sl, n - 1)
             br     == digits_of(get(sl[n], "beste_runde"))
         IN  IF br # <<>> /\ (before.time = None \/ int_of(br) < before.time)
             THEN [time |-> int_of(br), driver |-> resolve_driver(sl[n].name).name]
             ELSE before

fastest_of(d) == fastest_scan(sort_by_position(d.fahrer), Len(d.fahrer))

\* write_results calls update_fastest_lap
calls_fastest_lap(d) == fastest_of(d).driver # EmptyStr /\ fastest_of(d).time # None

fl_driver_cell(r) == <<FASTEST_LAP_ROW, col_start(r) + REL("fl_driver")>>
fl_time_cell(r)   == <<FASTEST_LAP_ROW, col_start(r) + REL("fl_time")>>

\* an early return only when the stored time is smaller
fastest_lap_kept_strict(s, r, new_time_int) ==
    LET current_digits == digits_of(cell_value(s, fl_time_cell(r)))
    IN  current_digits # <<>> /\ int_of(current_digits) < new_time_int

\* update_fastest_lap returns early: the stored time is not larger
fastest_lap_kept(s, r, new_time_int) ==
    LET current_digits == digits_of(cell_value(s, fl_time_cell(r)))
    IN  current_digits # <<>> /\ int_of(current_digits) <= new_time_int

----------------------------------------------------------------------------
(* Extraction results the upstream service may return *)

Z_abs  == <<"5","0",":","2","8",",","7","5","2">>
Z_d1   == <<"+","0","6",",","4","2","5">>
Z_d2   == <<"+","0","3",",","0","0","0">>
Z_laps == <<"2"," ","R","u","n","d","e","n">>
Z_dnf  == <<"D","N","F">>
BR_a   == <<"1",":","1","3",",","9","9","5">>
BR_b   == <<"1",":","1","2",",","0","0","0">>
A_gt   == <<"G","T"," ","A">>
A_tab  == <<"C","a","r"," ","B">>
A_unk  == <<"N","o","p","e">>

F_al1   == [position |-> 1, name |-> <<"A","L">>, auto |-> A_gt,
            zeit |-> Z_abs, beste_runde |-> BR_a]
F_al2   == [position |-> 2, name |-> <<"a","l","9">>, auto |-> A_tab,
            zeit |-> Z_d1, beste_runde |-> BR_b]
F_zed3  == [position |-> 3, name |-> <<"Z","e","d">>, auto |-> A_unk, zeit |-> Z_d2]
F_dnf11 == [position |-> 11, name |-> <<"A","l">>, auto |-> A_gt, zeit |-> Z_dnf]
F_bo20  == [position |-> 20, name |-> <<"B","o">>, auto |-> A_gt,
            zeit |-> Z_laps, beste_runde |-> EmptyStr]
F_bo1   == [position |-> 1, name |-> <<"b","o">>, auto |-> A_tab,
            zeit |-> <<"4","8",":","0","0",",","0","0","0">>, beste_runde |-> BR_b]

D_1   == [rennen |-> 7, grid |-> S_1, fahrer |-> <<F_al2, F_al1>>]
D_2a  == [rennen |-> 7, grid |-> <<"2","A">>, fahrer |-> <<F_bo1>>]
D_3   == [rennen |-> 1, grid |-> S_3, fahrer |-> <<F_al1, F_al2, F_zed3>>]
D_3p2 == [grid |-> S_3, fahrer |-> <<F_bo20, F_dnf11>>]
D_2b  == [rennen |-> 7, grid |-> S_2b, fahrer |-> <<F_bo1>>]
D_2B  == [rennen |-> 7, grid |-> <<" ","2","B">>, fahrer |-> <<F_al1, F_bo20>>]
D_x   == [rennen |-> 7, grid |-> <<"x">>, fahrer |-> <<F_al1>>]

\* non-conforming results
M_grid   == [rennen |-> 7, fahrer |-> <<F_al1>>]
M_fahrer == [rennen |-> 7, grid |-> S_2b]
M_pos    == [rennen |-> 7, grid |-> S_2b,
             fahrer |-> <<[name |-> <<"B","o">>, auto |-> A_gt, zeit |-> Z_abs]>>]
M_name   == [rennen |-> 7, grid |-> S_1,
             fahrer |-> <<F_bo1, [position |-> 2, auto |-> A_gt]>>]
M_auto   == [rennen |-> 7, grid |-> S_3,
             fahrer |-> <<[position |-> 1, name |-> <<"B","o">>]>>]

WellFormed == {D_1, D_2a, D_3, D_3p2, D_2b, D_2B, D_x}
Malformed  == {M_grid, M_fahrer, M_pos, M_name, M_auto}
Records    == WellFormed \cup Malformed

\* call_gemini raising: ResourceExhausted (daily or per-minute) or anything else
Failures == {[fail |-> "daily"], [fail |-> "rpm"], [fail |-> "error"]}
Upstream == Records \cup Failures

failed(u) == "fail" \in DOMAIN u
quota_failed(u) == failed(u) /\ u.fail \in {"daily", "rpm"}

----------------------------------------------------------------------------
(* Quota state *)

MinutesPerDay == 1440
ResetMinute   == 540
ShortBlock    == 5

\* the reset of the current day, whatever the time
daily_reset_today(t) == t - (t % MinutesPerDay) + ResetMinute

\* now.replace(hour=9, minute=0, ...), plus one day if now >= reset
daily_reset(t) ==
    LET reset == t - (t % MinutesPerDay) + ResetMinute
    IN  IF t >= reset THEN reset + MinutesPerDay ELSE reset

\* a variant that treats every failure as a per-minute limit
call_gemini_blocked_any(u, t, until) ==
    IF ~failed(u) THEN until
    ELSE IF u.fail = "daily" THEN daily_reset(t)
    ELSE t + ShortBlock

\* gemini_blocked_until after call_gemini got the response u at time t
call_gemini_blocked(u, t, until) ==
    IF ~failed(u) THEN until
    ELSE IF u.fail = "daily" THEN daily_reset(t)
    ELSE IF u.fail = "rpm" THEN t + ShortBlock
    ELSE until

----------------------------------------------------------------------------
(* analyse_image *)

\* data.get("fahrer", [])
fahrer_or_empty(d) == IF "fahrer" \in DOMAIN d THEN d.fahrer ELSE <<>>

\* validate_deltas raises KeyError: an entry has no "position"
deltas_raise(d) ==
    \E i \in 1..Len(fahrer_or_empty(d)) : "position" \notin DOMAIN fahrer_or_empty(d)[i]

\* the comparison loop raises KeyError: a differing entry of run 1 has no "position"
compare_raises(d1, d2) ==
    LET f1 == fahrer_or_empty(d1)
        f2 == fahrer_or_empty(d2)
        n  == IF Len(f1) < Len(f2) THEN Len(f1) ELSE Len(f2)
        opt(f, key) == IF key \in DOMAIN f THEN <<f[key]>> ELSE <<>>
    IN  \E i \in 1..n :
            /\ "position" \notin DOMAIN f1[i]
            /\ \E key \in {"name", "auto", "zeit", "beste_runde"} :
                    opt(f1[i], key) # opt(f2[i], key)

\* run 2 is started
runs_second(mode, u1) ==
    /\ ~failed(u1)
    /\ \/ mode = 2
       \/ mode = 1 /\ ~deltas_raise(u1) /\ validate_deltas(fahrer_or_empty(u1)) # {}

\* an analyse_image that falls back to run 1 when the verification run raises
analyse_image_keep_first(mode, u1, u2) ==
    IF failed(u1)
    THEN [result |-> IF quota_failed(u1) THEN "quota" ELSE "error", data |-> <<>>]
    ELSE IF mode = 0 THEN [result |-> "ok", data |-> u1]
    ELSE IF mode = 1 /\ deltas_raise(u1) THEN [result |-> "error", data |-> <<>>]
    ELSE IF ~runs_second(mode, u1) THEN [result |-> "ok", data |-> u1]
    ELSE IF failed(u2) THEN [result |-> "ok", data |-> u1]
    ELSE IF compare_raises(u1, u2) THEN [result |-> "error", data |-> <<>>]
    ELSE [result |-> "ok", data |-> u2]

\* analyse_image with upstream responses u1 (run 1) and u2 (run 2, if started):
\* result "ok" with the data, "quota" (GeminiQuotaError) or "error"
analyse_image(mode, u1, u2) ==
    IF failed(u1)
    THEN [result |-> IF quota_failed(u1) THEN "quota" ELSE "error", data |-> <<>>]
    ELSE IF mode = 0 THEN [result |-> "ok", data |-> u1]
    ELSE IF mode = 1 /\ deltas_raise(u1) THEN [result |-> "error", data |-> <<>>]
    ELSE IF ~runs_second(mode, u1) THEN [result |-> "ok", data |-> u1]
    ELSE IF failed(u2)
    THEN [result |-> IF quota_failed(u2) THEN "quota" ELSE "error", data |-> <<>>]
    ELSE IF compare_raises(u1, u2) THEN [result |-> "error", data |-> <<>>]
    ELSE [result |-> "ok", data |-> u2]

\* gemini_blocked_until after analyse_image
analyse_blocked(mode, u1, u2, t, until) ==
    IF runs_second(mode, u1)
    THEN call_gemini_blocked(u2, t, until)
    ELSE call_gemini_blocked(u1, t, until)

----------------------------------------------------------------------------
(* write_results as a whole *)

\* the sheet after update_fastest_lap
update_fastest_lap(s, r, new_driver, new_time_int) ==
    IF fastest_lap_kept(s, r, new_time_int) THEN s
    ELSE update_cell(update_cell(s, fl_driver_cell(r), new_driver),
                     fl_time_cell(r), str_of(new_time_int))

\* the sheet after write_results(sheet, data, rennen_override = r) has returned or raised
write_results_sheet(s, d, r) ==
    IF missing_head(d) THEN s
    ELSE LET b  == resolve_block_ret(s, r, grid_label_of(d))
             s1 == resolve_block_sheet(s, r, grid_label_of(d))
             s2 == batch_update(s1, batch_of(d, r, b))
         IN  IF missing_driver_key(d) THEN s1
             ELSE IF calls_fastest_lap(d)
             THEN update_fastest_lap(s2, r, fastest_of(d).driver, fastest_of(d).time)
             ELSE s2

\* the cell colours after write_results
write_results_fmt(fm, s, d, r) ==
    IF missing_head(d) \/ missing_driver_key(d) THEN fm
    ELSE LET b == resolve_block_ret(s, r, grid_label_of(d))
         IN  batch_format_cells(fm, all_cells_of(d, r, b) \ red_cells_of(d, r, b),
                                red_cells_of(d, r, b))

----------------------------------------------------------------------------
(* process_image, one store request per step *)

MaxImages == 3

NoData == <<>>

\* how a process_image ended: "ok", "quota" (GeminiQuotaError) or "error";
\* "running" while write_results is at work
outcome(u, res) ==
    [grid   |-> IF "grid" \in DOMAIN u THEN u.grid ELSE EmptyStr,
     result |-> res]

\* the bot before the first image
IdleBot ==
    /\ fmt = EmptySheet
    /\ block = 0
    /\ shift_i = 0
    /\ ndone = 0
    /\ hist = <<>>
    /\ last_result = outcome(NoData, "none")
    /\ fmt0 = EmptySheet
    /\ upfail = FALSE
    /\ sheetR = EmptySheet
    /\ ncrash = 0
    /\ now = 0
    /\ gemini_blocked_until = None
    /\ inbox = <<>>
    /\ blocked_call = FALSE
    /\ tasks = <<>>
    /\ processing_ids = {}
    /\ posted = 0

\* no single function has been called
NoQuery ==
    /\ q = <<0, 1, "grid_label">>
    /\ qcell = get_cell(rennen, 0, 1, "grid_label")
    /\ rets = <<>>

Init ==
    /\ IdleBot
    /\ sheet = EmptySheet
    /\ sheet0 = EmptySheet
    /\ pc = "idle"
    /\ data = NoData
    /\ rennen = 7
    /\ gemini_2nd_run \in {0, 1, 2}
    /\ NoQuery

\* write_results(sheet, d, rennen) up to its first store request: data["grid"],
\* data["fahrer"], load_driver_list and the label read of resolve_block
BeginWrite(d) ==
    /\ data' = d
    /\ shift_i' = 0
    /\ IF missing_head(d)
       THEN /\ pc' = "idle"
            /\ last_result' = outcome(d, "error")
            /\ block' = None
            /\ sheetR' = sheet
       ELSE IF resolve_block_shifts(sheet, rennen, grid_label_of(d))
       THEN /\ pc' = "shift"
            /\ last_result' = outcome(d, "running")
            /\ block' = None
            /\ sheetR' = sheet
       ELSE /\ pc' = "resolved"
            /\ last_result' = outcome(d, "running")
            /\ block' = resolve_block_ret(sheet, rennen, grid_label_of(d))
            /\ sheetR' = sheet

\* process_image: analyse_image, then write_results up to its first store request
ProcessImageBody(u1, u2) ==
    LET a == analyse_image(gemini_2nd_run, u1, u2)
    IN  /\ pc = "idle"
        /\ gemini_blocked_until = None
        /\ ndone' = ndone + 1
        /\ sheet0' = sheet
        /\ fmt0' = fmt
        /\ upfail' = (failed(u1) \/ (runs_second(gemini_2nd_run, u1) /\ failed(u2)))
        /\ gemini_blocked_until' =
               analyse_blocked(gemini_2nd_run, u1, u2, now, gemini_blocked_until)
        /\ IF a.result # "ok"
           THEN /\ last_result' = outcome(NoData, a.result)
                /\ data' = NoData
                /\ shift_i' = 0
                /\ block' = None
                /\ sheetR' = sheet
                /\ UNCHANGED pc
           ELSE BeginWrite(a.data)
        /\ UNCHANGED <<sheet, fmt, rennen, hist, ncrash, gemini_2nd_run, now, aux>>

ProcessImage(u1, u2) == ndone < MaxImages /\ ProcessImageBody(u1, u2)

\* one update_cell of shift_block; after the last one resolve_block returns 2
ShiftStep ==
    /\ pc = "shift"
    /\ shift_i < NShiftSteps
    /\ shift_i' = shift_i + 1
    /\ sheet' = shift_step(sheet, rennen, 2, 3, shift_i + 1)
    /\ IF shift_i + 1 = NShiftSteps
       THEN /\ pc' = "resolved"
            /\ block' = resolve_block_ret(sheet', rennen, grid_label_of(data))
            /\ sheetR' = sheet'
       ELSE UNCHANGED <<pc, block, sheetR>>
    /\ UNCHANGED <<fmt, data, rennen, ndone, hist, last_result, sheet0, fmt0, upfail,
                   ncrash, gemini_2nd_run, now, gemini_blocked_until, aux>>

\* validate_deltas or the loop over the drivers raises KeyError
AbortRecord ==
    /\ pc = "resolved"
    /\ missing_driver_key(data)
    /\ pc' = "idle"
    /\ last_result' = outcome(data, "error")
    /\ UNCHANGED <<sheet, fmt, data, rennen, hist, block, shift_i, ndone, sheet0, fmt0,
                   upfail, sheetR, ncrash, gemini_2nd_run, now, gemini_blocked_until,
                   aux>>

\* sheet.batch_update of the whole record
BatchUpdate ==
    /\ pc = "resolved"
    /\ ~missing_driver_key(data)
    /\ sheet' = batch_update(sheet, batch_of(data, rennen, block))
    /\ pc' = "format"
    /\ UNCHANGED <<fmt, data, rennen, block, shift_i, ndone, hist, last_result, sheet0,
                   fmt0, upfail, sheetR, ncrash, gemini_2nd_run, now,
                   gemini_blocked_until, aux>>

\* batch_format_cells, then the read of update_fastest_lap
FormatCells ==
    /\ pc = "format"
    /\ fmt' = batch_format_cells(fmt,
                 all_cells_of(data, rennen, block) \ red_cells_of(data, rennen, block),
                 red_cells_of(data, rennen, block))
    /\ IF calls_fastest_lap(data) /\ ~fastest_lap_kept(sheet, rennen, fastest_of(data).time)
       THEN /\ pc' = "fl_driver"
            /\ UNCHANGED <<hist, last_result>>
       ELSE /\ pc' = "idle"
            /\ hist' = Append(hist, grid_label_of(data))
            /\ last_result' = outcome(data, "ok")
    /\ UNCHANGED <<sheet, data, rennen, block, shift_i, ndone, sheet0, fmt0, upfail,
                   sheetR, ncrash, gemini_2nd_run, now, gemini_blocked_until, aux>>

\* update_fastest_lap: first update_cell
FastestLapDriver ==
    /\ pc = "fl_driver"
    /\ sheet' = update_cell(sheet, fl_driver_cell(rennen), fastest_of(data).driver)
    /\ pc' = "fl_time"
    /\ UNCHANGED <<fmt, data, rennen, block, shift_i, ndone, hist, last_result, sheet0,
                   fmt0, upfail, sheetR, ncrash, gemini_2nd_run, now,
                   gemini_blocked_until, aux>>

\* update_fastest_lap: second update_cell; write_results returns
FastestLapTime ==
    /\ pc = "fl_time"
    /\ sheet' = update_cell(sheet, fl_time_cell(rennen), str_of(fastest_of(data).time))
    /\ pc' = "idle"
    /\ hist' = Append(hist, grid_label_of(data))
    /\ last_result' = outcome(data, "ok")
    /\ UNCHANGED <<fmt, data, rennen, block, shift_i, ndone, sheet0, fmt0, upfail,
                   sheetR, ncrash, gemini_2nd_run, now, gemini_blocked_until, aux>>

\* the answers run 2 can get; without a run 2 there is no second answer
second_responses(u1) == IF runs_second(gemini_2nd_run, u1) THEN Upstream ELSE {u1}

Next ==
    \/ \E u1 \in Upstream : \E u2 \in second_responses(u1) : ProcessImage(u1, u2)
    \/ ShiftStep
    \/ AbortRecord
    \/ BatchUpdate
    \/ FormatCells
    \/ FastestLapDriver
    \/ FastestLapTime

Spec == Init /\ [][Next]_vars

\* write_results, run step by step without interruption, ends where
\* write_results_sheet and write_results_fmt say
StepwiseAgrees ==
    (pc = "idle" /\ data # NoData) =>
        /\ sheet = write_results_sheet(sheet0, data, rennen)
        /\ fmt = write_results_fmt(fmt0, sheet0, data, rennen)

----------------------------------------------------------------------------
(* Relocation *)

MovedFields == {"driver", "car", "racetime", "laps"}

\* (cell of block 2, cell of block 3) for the label and every moved field
MovedPairsOf ==
    [r \in Races |->
        {<<get_grid_label_cell(r, 2), get_grid_label_cell(r, 3)>>}
        \cup {<<get_cell(r, 2, pos, f), get_cell(r, 3, pos, f)>> :
                pos \in 1..20, f \in MovedFields}]

MovedPairs(r) == MovedPairsOf[r]

\* the record being reconciled has label "2b" and found "3" in block 2
Relocating ==
    /\ data # NoData
    /\ "grid" \in DOMAIN data
    /\ grid_label_of(data) \in {S_2b, <<"2","B">>}
    /\ cell_value(sheet0, get_grid_label_cell(rennen, 2)) = S_3

\* C1: when resolve_block("2b") returns after finding "3" in block 2, block 3
\* holds the label and the driver, car, racetime and laps of every position
\* 1..20 that block 2 held before the call, block 2 holds none of these
\* per-position fields any more, and the batch of write_results is not yet written.
C1_RelocationInvariant ==
    (pc = "resolved" /\ Relocating) =>
        /\ block = 2
        /\ \A pr \in MovedPairs(rennen) :
               cell_value(sheet, pr[2]) = cell_value(sheet0, pr[1])
        /\ \A pos \in 1..20, f \in MovedFields :
               cell_value(sheet, get_cell(rennen, 2, pos, f)) = EmptyStr

C1_Witness ==
    /\ pc = "resolved" /\ Relocating
    /\ cell_value(sheet, get_cell(rennen, 3, 20, "driver")) # EmptyStr
    /\ cell_value(sheet, get_cell(rennen, 3, 1, "driver")) # EmptyStr

\* C2: in every state of a relocation, after each single update_cell, every
\* value block 2 held before is still in its cell of block 2 or already in the
\* matching cell of block 3 (so each cell is written to block 3 before it is
\* emptied in block 2), and no position cell has changed before the label
\* has been moved.
C2_NoLossDuringRelocation ==
    ((pc = "shift" \/ pc = "resolved") /\ Relocating) =>
        /\ \A pr \in MovedPairs(rennen) :
               \/ cell_value(sheet, pr[1]) = cell_value(sheet0, pr[1])
               \/ cell_value(sheet, pr[2]) = cell_value(sheet0, pr[1])
        /\ \A pr \in MovedPairs(rennen) \ {<<get_grid_label_cell(rennen, 2),
                                               get_grid_label_cell(rennen, 3)>>} :
               (\/ cell_value(sheet, pr[1]) # cell_value(sheet0, pr[1])
                \/ cell_value(sheet, pr[2]) # cell_value(sheet0, pr[2]))
               => /\ cell_value(sheet, get_grid_label_cell(rennen, 2)) = EmptyStr
                  /\ cell_value(sheet, get_grid_label_cell(rennen, 3)) = S_3

C2_Witness ==
    /\ pc = "shift" /\ Relocating
    /\ shift_i = 3
    /\ cell_value(sheet, get_cell(rennen, 2, 1, "driver")) # EmptyStr
    /\ cell_value(sheet, get_cell(rennen, 3, 1, "driver")) # EmptyStr

\* C3: a record that write_results rejects as malformed leaves the sheet and
\* the cell colours as they were before process_image.
C3_MalformedNoMutation ==
    (pc = "idle" /\ data # NoData /\ last_result.result = "error") =>
        (sheet = sheet0 /\ fmt = fmt0)

\* C4: when a call_gemini of the current process_image raised (quota or not,
\* first run or verification run), process_image has ended and the sheet and
\* the cell colours are as they were before it.
C4_UpstreamFailureNoWrite ==
    upfail => (pc = "idle" /\ sheet = sheet0 /\ fmt = fmt0)

C4_Witness ==
    /\ upfail
    /\ gemini_2nd_run = 2
    /\ last_result.result = "quota"
    /\ cell_value(sheet, get_grid_label_cell(rennen, 2)) = S_3

\* C9: from a sheet without labels, after the records "1", "3" the label of
\* block 2 is "3"; after the records "1", "3", "2b" block 0 is labelled "1",
\* block 2 "2b" and block 3 "3".
C9_Scenario ==
    /\ (pc = "idle" /\ ndone = 2 /\ hist = <<S_1, S_3>>) =>
           /\ cell_value(sheet, get_grid_label_cell(rennen, 0)) = S_1
           /\ cell_value(sheet, get_grid_label_cell(rennen, 2)) = S_3
    /\ (pc = "idle" /\ ndone = 3 /\ hist = <<S_1, S_3, S_2b>>) =>
           /\ cell_value(sheet, get_grid_label_cell(rennen, 0)) = S_1
           /\ cell_value(sheet, get_grid_label_cell(rennen, 2)) = S_2b
           /\ cell_value(sheet, get_grid_label_cell(rennen, 3)) = S_3

C9_Witness ==
    /\ pc = "idle" /\ ndone = 3 /\ hist = <<S_1, S_3, S_2b>>
    /\ rennen = 7

----------------------------------------------------------------------------
(* get_cell called on its own *)

\* the bot is not reconciling anything
Parked ==
    /\ IdleBot
    /\ sheet = EmptySheet
    /\ sheet0 = EmptySheet
    /\ pc = "idle"
    /\ data = NoData
    /\ gemini_2nd_run = 0

Queries == Blocks \X Positions \X Fields

InitCell ==
    /\ Parked
    /\ rennen \in Races
    /\ NoQuery

\* get_cell(rennen, b, position, field)
Query(b, position, field) ==
    /\ q' = <<b, position, field>>
    /\ qcell' = get_cell(rennen, b, position, field)
    /\ UNCHANGED <<sheet, fmt, pc, data, rennen, block, shift_i, ndone, hist,
                   last_result, sheet0, fmt0, upfail, sheetR, ncrash, gemini_2nd_run,
                   now, gemini_blocked_until, rets, scan>>

NextCell == \E b \in Blocks, position \in Positions, field \in Fields :
                Query(b, position, field)

SpecCell == InitCell /\ [][NextCell]_vars

\* the fields write_results and shift_block address through get_cell
PerPositionFields ==
    {"grid_label", "position", "driver", "team", "car", "racetime", "laps"}

\* C6 as stated: for a fixed race no other (block, position, field) of the nine
\* fields of REL maps to the cell get_cell returned for the queried one.
C6_InjectiveAllFields ==
    \A o \in Queries :
        o # q => get_cell(rennen, o[1], o[2], o[3]) # qcell

\* C6 amended: for a fixed race get_cell is injective over blocks 0..3,
\* positions 1..20 and the seven per-position fields grid_label, position,
\* driver, team, car, racetime, laps; fl_driver and fl_time share the offsets
\* of car and racetime.
C6_InjectivePerPosition ==
    q[3] \in PerPositionFields =>
        \A o \in Blocks \X Positions \X PerPositionFields :
            o # q => get_cell(rennen, o[1], o[2], o[3]) # qcell

C6_Witness ==
    /\ q = <<3, 20, "laps">>
    /\ rennen = 7
    /\ qcell = <<row_start(3) + 19, col_start(7) + 6>>

\* races whose cells are compared with the queried one
MaxLayoutRace == 9

\* the fields write_results fills for a record
WrittenFields == {"grid_label", "driver", "team", "car", "racetime", "laps"}

\* C29: every cell written for a record (grid label, driver, team, car,
\* racetime, laps) of a race, a block 0..3 and a position 1..20 lies in rows
\* row_start(block)..row_start(block)+19 and columns
\* col_start(race)..col_start(race)+6; it is no cell of another block or of
\* another race, and no fastest-lap cell (row 3) of any race.
C29_LayoutBounds ==
    q[3] \in WrittenFields =>
        /\ qcell[1] \in row_start(q[1]) .. (row_start(q[1]) + 19)
        /\ qcell[2] \in col_start(rennen) .. (col_start(rennen) + 6)
        /\ (q[3] = "grid_label" /\ q[2] = 1) =>
               qcell = get_grid_label_cell(rennen, q[1])
        /\ \A r \in 1..MaxLayoutRace, b \in Blocks :
               <<r, b>> # <<rennen, q[1]>> =>
                   \A position \in Positions, field \in WrittenFields :
                       get_cell(r, b, position, field) # qcell
        /\ \A r \in 1..MaxLayoutRace :
               /\ fl_driver_cell(r) # qcell
               /\ fl_time_cell(r) # qcell
               /\ qcell[1] # FASTEST_LAP_ROW

C29_Witness ==
    /\ q = <<2, 20, "laps">>
    /\ rennen = 7
    /\ qcell = <<row_start(3) - 1, col_start(8) - 8>>

----------------------------------------------------------------------------
(* resolve_block called on its own, twice in a row *)

MaxStored == 2

\* labels handed to resolve_block, by what they read as
LabelsOne   == {S_1, <<" ", "1", " ">>}
LabelsTwo   == {S_2, S_2a, <<"2", "A">>}
LabelsThree == {S_3, <<"3", " ">>}
LabelsTwoB  == {S_2b, <<" ", "2", "B">>}
LabelsOther == {<<"x">>, EmptyStr, <<"4">>}
LabelInputs == LabelsOne \cup LabelsTwo \cup LabelsThree \cup LabelsTwoB \cup LabelsOther

InitResolve ==
    /\ IdleBot
    /\ rennen \in Races
    /\ sheet = EmptySheet
    /\ sheet0 = EmptySheet
    /\ pc = "r0"
    /\ data \in {[grid |-> l] : l \in LabelInputs}
    /\ gemini_2nd_run = 0
    /\ NoQuery

\* an earlier write_results(sheet, d, rennen) that filled the sheet
Store(d) ==
    /\ pc = "r0"
    /\ ndone < MaxStored
    /\ ndone' = ndone + 1
    /\ sheet' = write_results_sheet(sheet, d, rennen)
    /\ sheet0' = sheet'
    /\ UNCHANGED <<fmt, pc, data, rennen, block, shift_i, hist, last_result, fmt0,
                   upfail, sheetR, ncrash, gemini_2nd_run, now, gemini_blocked_until,
                   aux>>

\* resolve_block(sheet, rennen, data.grid), from its call to its return
ResolveCall ==
    /\ pc \in {"r0", "r1"}
    /\ pc' = IF pc = "r0" THEN "r1" ELSE "r2"
    /\ block' = resolve_block_ret(sheet, rennen, data.grid)
    /\ sheet' = resolve_block_sheet(sheet, rennen, data.grid)
    /\ shift_i' = IF resolve_block_shifts(sheet, rennen, data.grid) THEN NShiftSteps ELSE 0
    /\ sheetR' = sheet
    /\ rets' = Append(rets, block')
    /\ UNCHANGED <<fmt, data, rennen, ndone, hist, last_result, sheet0, fmt0, upfail,
                   ncrash, gemini_2nd_run, now, gemini_blocked_until, q, qcell, scan>>

NextResolve ==
    \/ \E d \in WellFormed : Store(d)
    \/ ResolveCall

SpecResolve == InitResolve /\ [][NextResolve]_vars

\* what block 2's label cell held when the latest call began
StoredTwoB == cell_value(sheetR, get_grid_label_cell(rennen, 2)) \in {S_2b, <<"2", "B">>}

\* C7: resolve_block returns 0 for "1"; 1 for "2" and "2a"; for "3" it returns 3
\* if block 2's label cell holds "2b" when it is called and 2 otherwise; 2 for
\* "2b" whatever block 2 holds; 2 for any other label; labels are trimmed and
\* compared without regard to case; the result is in 0..3.
C7_ResolveBlockTable ==
    rets # <<>> =>
        LET ret == rets[Len(rets)]
        IN  /\ ret \in 0..3
            /\ data.grid \in LabelsOne => ret = 0
            /\ data.grid \in LabelsTwo => ret = 1
            /\ data.grid \in LabelsThree => ret = (IF StoredTwoB THEN 3 ELSE 2)
            /\ data.grid \in LabelsTwoB => ret = 2
            /\ data.grid \in LabelsOther => ret = 2

C7_Witness ==
    /\ rets = <<3>>
    /\ data.grid = <<"3", " ">>
    /\ cell_value(sheetR, get_grid_label_cell(rennen, 2)) = <<"2", "B">>

\* C8: the second of two resolve_block calls in a row for the same race and
\* label returns the block the first returned and relocates nothing, also
\* when the first call relocated block 2.
C8_ResolveIdempotent ==
    pc = "r2" =>
        /\ rets[1] = rets[2]
        /\ shift_i = 0
        /\ sheet = sheetR

C8_Witness ==
    /\ pc = "r2"
    /\ rets = <<2, 2>>
    /\ sheet # sheet0
    /\ cell_value(sheet0, get_grid_label_cell(rennen, 2)) = S_3
    /\ cell_value(sheet, get_grid_label_cell(rennen, 3)) = S_3

\* what block 2's label cell held when the latest call began reads as "3"
StoredThree == cell_value(sheetR, get_grid_label_cell(rennen, 2)) \in LabelsThree

\* C25: a call of resolve_block changes the sheet iff its label reads "2b" and
\* the label cell of block 2 reads "3"; for every other label, unknown ones
\* included, and every other content of the sheet the sheet after the call is
\* the sheet before it; for "1", "2" and "2a" no cell is read.
C25_MutatesIffRelocation ==
    rets # <<>> =>
        /\ (sheet # sheetR) <=> (data.grid \in LabelsTwoB /\ StoredThree)
        /\ (shift_i # 0) <=> (data.grid \in LabelsTwoB /\ StoredThree)
        /\ data.grid \in LabelsOne \cup LabelsTwo =>
               resolve_block_reads(sheetR, rennen, data.grid) = {}
        /\ data.grid \notin LabelsOne \cup LabelsTwo =>
               get_grid_label_cell(rennen, 2) \in
                   resolve_block_reads(sheetR, rennen, data.grid)

C25_Witness ==
    /\ rets = <<2>>
    /\ data.grid = <<" ", "2", "B">>
    /\ StoredThree
    /\ sheet # sheetR
    /\ cell_value(sheet, get_grid_label_cell(rennen, 2)) = EmptyStr
    /\ cell_value(sheet, get_grid_label_cell(rennen, 3)) = S_3

----------------------------------------------------------------------------
(* The process stops during write_results and is started again *)

MaxCrashes == 1

\* the process stops between two store requests of write_results; the sheet
\* keeps what the requests made so far have written
Crash ==
    /\ pc \in {"shift", "resolved", "format", "fl_driver", "fl_time"}
    /\ ncrash < MaxCrashes
    /\ ncrash' = ncrash + 1
    /\ pc' = "down"
    /\ UNCHANGED <<sheet, fmt, data, rennen, block, shift_i, ndone, hist, last_result,
                   sheet0, fmt0, upfail, sheetR, gemini_2nd_run, now,
                   gemini_blocked_until, aux>>

\* on_ready -> scan_channel -> process_image of the same image, whose analysis
\* yields the same record: write_results starts from its first line
Restart ==
    /\ pc = "down"
    /\ BeginWrite(data)
    /\ UNCHANGED <<sheet, fmt, rennen, ndone, hist, sheet0, fmt0, upfail, ncrash,
                   gemini_2nd_run, now, gemini_blocked_until, aux>>

NextRestart ==
    \/ Next
    \/ Crash
    \/ Restart

SpecRestart == Init /\ [][NextRestart]_vars

\* C5: when a record has been reconciled, with or without a stop of the
\* process and a second reconciliation of the same record in between, the
\* sheet is the one an uninterrupted write_results produces from the sheet
\* the record found.
C5_RestartTolerant ==
    (pc = "idle" /\ data # NoData /\ last_result.result = "ok") =>
        sheet = write_results_sheet(sheet0, data, rennen)

----------------------------------------------------------------------------
(* scan_channel: the polling loop, commands and the quota gate *)

MaxInbox   == 2
MaxMinutes == 8
MaxRace    == 8

StartMinutes == {0, 535}

\* messages users post: commands and screenshots
Commands == {[kind |-> "cmd", cmd |-> "!next"], [kind |-> "cmd", cmd |-> "!sort"]}
ImageMsg == [kind |-> "image"]

\* what the upstream service answers in the polling loop
ScanUpstream == {D_1, D_3} \cup Failures

\* gemini_is_blocked() would answer True at time t
blocked_now(t, until) == until # None /\ t < until

\* a query that never lifts the block
after_is_blocked_keeps(t, until) == until

\* gemini_blocked_until after gemini_is_blocked() at time t
after_is_blocked(t, until) == IF blocked_now(t, until) THEN until ELSE None

\* handle_command reaches check_gemini_version, which calls generate_content
calls_upstream(m) == m.cmd \in {"!next", "!race"}

InitScan ==
    /\ fmt = EmptySheet
    /\ block = 0
    /\ shift_i = 0
    /\ ndone = 0
    /\ hist = <<>>
    /\ last_result = outcome(NoData, "none")
    /\ fmt0 = EmptySheet
    /\ upfail = FALSE
    /\ sheetR = EmptySheet
    /\ ncrash = 0
    /\ now \in StartMinutes
    /\ gemini_blocked_until = None
    /\ inbox = <<>>
    /\ blocked_call = FALSE
    /\ tasks = <<>>
    /\ processing_ids = {}
    /\ posted = 0
    /\ sheet = EmptySheet
    /\ sheet0 = EmptySheet
    /\ pc = "top"
    /\ data = NoData
    /\ rennen = 7
    /\ gemini_2nd_run \in {0, 1, 2}
    /\ NoQuery

\* handle_command(m) for the command at index i of the history; the post is deleted
handle_command(i) ==
    /\ inbox' = [j \in 1..(Len(inbox) - 1) |-> IF j < i THEN inbox[j] ELSE inbox[j + 1]]
    /\ rennen' = IF inbox[i].cmd = "!next" THEN rennen + 1 ELSE rennen
    /\ blocked_call' = (blocked_call \/ (calls_upstream(inbox[i])
                                          /\ blocked_now(now, gemini_blocked_until)))

\* top of the while loop: gemini_is_blocked() chooses the branch
ScanTop ==
    /\ pc = "top"
    /\ gemini_blocked_until' = after_is_blocked(now, gemini_blocked_until)
    /\ pc' = IF blocked_now(now, gemini_blocked_until) THEN "bscan" ELSE "scan"
    /\ UNCHANGED <<sheet, fmt, data, rennen, block, shift_i, ndone, hist, last_result,
                   sheet0, fmt0, upfail, sheetR, ncrash, gemini_2nd_run, now, aux>>

\* blocked branch: the next command of the history is handled, images are skipped
BlockedCommand ==
    /\ pc = "bscan"
    /\ \E i \in 1..Len(inbox) :
          /\ inbox[i].kind = "cmd"
          /\ \A j \in 1..(i - 1) : inbox[j].kind # "cmd"
          /\ handle_command(i)
    /\ UNCHANGED <<sheet, fmt, pc, data, block, shift_i, ndone, hist, last_result,
                   sheet0, fmt0, upfail, sheetR, ncrash, gemini_2nd_run, now,
                   gemini_blocked_until, q, qcell, rets, pool>>

\* blocked branch: end of the history, second gemini_is_blocked(), sleep
BlockedDone ==
    /\ pc = "bscan"
    /\ \A i \in 1..Len(inbox) : inbox[i].kind # "cmd"
    /\ gemini_blocked_until' = after_is_blocked(now, gemini_blocked_until)
    /\ pc' = "sleep"
    /\ UNCHANGED <<sheet, fmt, data, rennen, block, shift_i, ndone, hist, last_result,
                   sheet0, fmt0, upfail, sheetR, ncrash, gemini_2nd_run, now, aux>>

\* normal branch: the next message is a command
ScanCommand ==
    /\ pc = "scan"
    /\ inbox # <<>>
    /\ inbox[1].kind = "cmd"
    /\ handle_command(1)
    /\ UNCHANGED <<sheet, fmt, pc, data, block, shift_i, ndone, hist, last_result,
                   sheet0, fmt0, upfail, sheetR, ncrash, gemini_2nd_run, now,
                   gemini_blocked_until, q, qcell, rets, pool>>

\* normal branch: the next message is a screenshot; process_image as a whole,
\* then "if gemini_is_blocked(): break"
ScanImage(u1, u2) ==
    LET a      == analyse_image(gemini_2nd_run, u1, u2)
        until1 == analyse_blocked(gemini_2nd_run, u1, u2, now, gemini_blocked_until)
        wrote  == a.result = "ok" /\ ~missing_head(a.data) /\ ~missing_driver_key(a.data)
    IN  /\ pc = "scan"
        /\ inbox # <<>>
        /\ inbox[1].kind = "image"
        /\ ndone < MaxImages
        /\ ndone' = ndone + 1
        /\ blocked_call' = (blocked_call \/ blocked_now(now, gemini_blocked_until))
        /\ sheet0' = sheet
        /\ fmt0' = fmt
        /\ upfail' = (failed(u1) \/ (runs_second(gemini_2nd_run, u1) /\ failed(u2)))
        /\ data' = a.data
        /\ IF a.result = "ok"
           THEN /\ sheet' = write_results_sheet(sheet, a.data, rennen)
                /\ fmt' = write_results_fmt(fmt, sheet, a.data, rennen)
                /\ last_result' = outcome(a.data, IF wrote THEN "ok" ELSE "error")
                /\ hist' = IF wrote THEN Append(hist, grid_label_of(a.data)) ELSE hist
           ELSE /\ last_result' = outcome(NoData, a.result)
                /\ UNCHANGED <<sheet, fmt, hist>>
        /\ inbox' = IF a.result = "quota" THEN inbox ELSE Tail(inbox)
        /\ gemini_blocked_until' = after_is_blocked(now, until1)
        /\ pc' = IF blocked_now(now, until1) THEN "sleep" ELSE "scan"
        /\ UNCHANGED <<rennen, block, shift_i, sheetR, ncrash, gemini_2nd_run, now,
                       q, qcell, rets, pool>>

\* normal branch: end of the history
ScanDone ==
    /\ pc = "scan"
    /\ inbox = <<>>
    /\ pc' = "sleep"
    /\ UNCHANGED <<sheet, fmt, data, rennen, block, shift_i, ndone, hist, last_result,
                   sheet0, fmt0, upfail, sheetR, ncrash, gemini_2nd_run, now,
                   gemini_blocked_until, aux>>

\* asyncio.sleep(POLL_INTERVAL) is over
Wake ==
    /\ pc = "sleep"
    /\ pc' = "top"
    /\ UNCHANGED <<sheet, fmt, data, rennen, block, shift_i, ndone, hist, last_result,
                   sheet0, fmt0, upfail, sheetR, ncrash, gemini_2nd_run, now,
                   gemini_blocked_until, aux>>

\* a minute passes
Tick ==
    /\ \E t0 \in StartMinutes : t0 <= now /\ now < t0 + MaxMinutes
    /\ now' = now + 1
    /\ UNCHANGED <<sheet, fmt, pc, data, rennen, block, shift_i, ndone, hist,
                   last_result, sheet0, fmt0, upfail, sheetR, ncrash, gemini_2nd_run,
                   gemini_blocked_until, aux>>

\* screenshots waiting in the history
images_waiting == Cardinality({i \in 1..Len(inbox) : inbox[i].kind = "image"})

\* "!next" commands waiting in the history
next_waiting ==
    Cardinality({i \in 1..Len(inbox) : inbox[i].kind = "cmd" /\ inbox[i].cmd = "!next"})

\* a user posts a message while the bot sleeps; the newest message comes first
Post(m) ==
    /\ pc = "sleep"
    /\ Len(inbox) < MaxInbox
    /\ m.kind = "image" => ndone + images_waiting < MaxImages
    /\ (m.kind = "cmd" /\ m.cmd = "!next") => rennen + next_waiting < MaxRace
    /\ inbox' = <<m>> \o inbox
    /\ UNCHANGED <<sheet, fmt, pc, data, rennen, block, shift_i, ndone, hist,
                   last_result, sheet0, fmt0, upfail, sheetR, ncrash, gemini_2nd_run,
                   now, gemini_blocked_until, q, qcell, rets, blocked_call, pool>>

NextScan ==
    \/ ScanTop
    \/ BlockedCommand
    \/ BlockedDone
    \/ ScanCommand
    \/ \E u1 \in ScanUpstream :
          \E u2 \in second_responses(u1) \cap (ScanUpstream \cup {u1}) : ScanImage(u1, u2)
    \/ ScanDone
    \/ Wake
    \/ Tick
    \/ \E m \in Commands \cup {ImageMsg} : Post(m)

SpecScan == InitScan /\ [][NextScan]_vars

\* C10: no upstream call is started while the quota state is blocked, that is
\* between a quota failure and the moment the time reaches gemini_blocked_until.
C10_NoCallWhileBlocked == ~blocked_call

----------------------------------------------------------------------------
(* The quota state alone: failures of call_gemini, queries, and the clock *)

MaxDays == 2

\* minutes of the day the clock visits: midnight, 08:00, 08:59, 09:00, 09:01,
\* 09:04, 23:50, 23:59
DayMinutes == {0, 480, 539, 540, 541, 544, 1430, 1439}

QuotaMinutes == {d * MinutesPerDay + m : d \in 0..(MaxDays - 1), m \in DayMinutes}

InitQuota ==
    /\ fmt = EmptySheet
    /\ block = 0
    /\ shift_i = 0
    /\ ndone = 0
    /\ hist = <<>>
    /\ last_result = outcome(NoData, "none")
    /\ fmt0 = EmptySheet
    /\ upfail = FALSE
    /\ sheetR = EmptySheet
    /\ ncrash = 0
    /\ now \in QuotaMinutes
    /\ gemini_blocked_until = None
    /\ inbox = <<>>
    /\ blocked_call = FALSE
    /\ tasks = <<>>
    /\ processing_ids = {}
    /\ posted = 0
    /\ sheet = EmptySheet
    /\ sheet0 = EmptySheet
    /\ pc = "start"
    /\ data = NoData
    /\ rennen = 7
    /\ gemini_2nd_run = 0
    /\ NoQuery

\* call_gemini gets ResourceExhausted (daily or per minute) or another exception
QuotaFailure(u) ==
    /\ gemini_blocked_until' = call_gemini_blocked(u, now, gemini_blocked_until)
    /\ pc' = u.fail
    /\ rets' = <<>>
    /\ UNCHANGED <<sheet, fmt, data, rennen, block, shift_i, ndone, hist, last_result,
                   sheet0, fmt0, upfail, sheetR, ncrash, gemini_2nd_run, now,
                   q, qcell, scan>>

\* gemini_is_blocked(): rets keeps the answer and the value the query found
IsBlockedQuery ==
    /\ gemini_blocked_until' = after_is_blocked(now, gemini_blocked_until)
    /\ pc' = "gemini_is_blocked"
    /\ rets' = <<blocked_now(now, gemini_blocked_until), gemini_blocked_until>>
    /\ UNCHANGED <<sheet, fmt, data, rennen, block, shift_i, ndone, hist, last_result,
                   sheet0, fmt0, upfail, sheetR, ncrash, gemini_2nd_run, now,
                   q, qcell, scan>>

\* time passes
Elapse(t) ==
    /\ t > now
    /\ now' = t
    /\ pc' = "clock"
    /\ rets' = <<>>
    /\ UNCHANGED <<sheet, fmt, data, rennen, block, shift_i, ndone, hist, last_result,
                   sheet0, fmt0, upfail, sheetR, ncrash, gemini_2nd_run,
                   gemini_blocked_until, q, qcell, scan>>

NextQuota ==
    \/ \E u \in Failures : QuotaFailure(u)
    \/ IsBlockedQuery
    \/ \E t \in QuotaMinutes : Elapse(t)

SpecQuota == InitQuota /\ [][NextQuota]_vars

\* C27: a failure classified as a per-minute limit at time now leaves the
\* quota state blocked until now + ShortBlock (5 minutes); a failure that is
\* not a quota failure leaves gemini_blocked_until as it was.
C27_ShortBlock ==
    [][ /\ pc' = "rpm" =>
            /\ gemini_blocked_until' = now + ShortBlock
            /\ blocked_now(now', gemini_blocked_until')
        /\ pc' = "error" => gemini_blocked_until' = gemini_blocked_until ]_vars

C27_Witness ==
    /\ pc = "rpm"
    /\ now = 1430
    /\ gemini_blocked_until = 1435

\* C11: after a daily quota failure gemini_blocked_until is the next 09:00:
\* later than now, at 09:00 of a day, and at most one day away; a failure at
\* 23:50 blocks until 09:00 of the next day, one at 08:00 until 09:00 of the
\* same day, and one at 09:00 sharp until 09:00 of the next day.
C11_DailyBlockUntilNextNine ==
    pc = "daily" =>
        /\ gemini_blocked_until > now
        /\ gemini_blocked_until % MinutesPerDay = ResetMinute
        /\ gemini_blocked_until - now <= MinutesPerDay
        /\ now = 1430 => gemini_blocked_until = MinutesPerDay + 540
        /\ now = 480 => gemini_blocked_until = 540
        /\ now = 540 => gemini_blocked_until = MinutesPerDay + 540

C11_Witness ==
    /\ pc = "daily"
    /\ now = 1430
    /\ gemini_blocked_until = MinutesPerDay + 540

\* C12: a query at or after gemini_blocked_until answers "not blocked" and
\* clears the value; an earlier query answers "blocked" and changes nothing;
\* the value is never cleared by a step that is not a query.
C12_LazyUnblock ==
    [][ /\ (pc' = "gemini_is_blocked" /\ gemini_blocked_until # None
                /\ now >= gemini_blocked_until)
            => (rets'[1] = FALSE /\ gemini_blocked_until' = None)
        /\ (pc' = "gemini_is_blocked" /\ gemini_blocked_until # None
                /\ now < gemini_blocked_until)
            => (rets'[1] = TRUE /\ gemini_blocked_until' = gemini_blocked_until)
        /\ (gemini_blocked_until # None /\ gemini_blocked_until' = None)
            => pc' = "gemini_is_blocked"
      ]_vars

C12_Witness ==
    /\ pc = "gemini_is_blocked"
    /\ rets = <<FALSE, 540>>
    /\ now = 540
    /\ gemini_blocked_until = None

----------------------------------------------------------------------------
(* on_ready and the scan_channel tasks it creates on the one event loop *)

MaxTasks == 2

\* what the upstream service answers a scan task
TaskUpstream == {D_1, D_3, [fail |-> "error"]}

\* a scan_channel task that has reached the top of its while loop
NewTask == [pc |-> "top", todo |-> <<>>, msg |-> 0, data |-> NoData]

\* the ids of the messages of a history
ids_of(h) == [i \in 1..Len(h) |-> h[i].id]

\* the history without the message m
RECURSIVE without(_, _)
without(h, m) ==
    IF h = <<>> THEN <<>>
    ELSE IF Head(h).id = m THEN without(Tail(h), m)
    ELSE <<Head(h)>> \o without(Tail(h), m)

\* between "data = analyse_image(tmp_path)" and the return of write_results
extracted_unwritten(t) == tasks[t].pc = "box"

InitTasks ==
    /\ fmt = EmptySheet
    /\ block = 0
    /\ shift_i = 0
    /\ ndone = 0
    /\ hist = <<>>
    /\ last_result = outcome(NoData, "none")
    /\ fmt0 = EmptySheet
    /\ upfail = FALSE
    /\ sheetR = EmptySheet
    /\ ncrash = 0
    /\ now = 0
    /\ gemini_blocked_until = None
    /\ inbox = <<>>
    /\ blocked_call = FALSE
    /\ tasks = <<>>
    /\ processing_ids = {}
    /\ posted = 0
    /\ sheet = EmptySheet
    /\ sheet0 = EmptySheet
    /\ pc = "loop"
    /\ data = NoData
    /\ rennen = 7
    /\ gemini_2nd_run = 0
    /\ NoQuery

\* on_ready: discord_client.loop.create_task(scan_channel())
OnReady ==
    /\ Len(tasks) < MaxTasks
    /\ tasks' = Append(tasks, NewTask)
    /\ UNCHANGED <<sheet, fmt, pc, data, rennen, block, shift_i, ndone, hist, last_result,
                   sheet0, fmt0, upfail, sheetR, ncrash, gemini_2nd_run, now,
                   gemini_blocked_until, q, qcell, rets, inbox, blocked_call,
                   processing_ids, posted>>

\* what a step of a task leaves alone besides the sheet and the channel
TaskFrame ==
    UNCHANGED <<pc, data, rennen, block, shift_i, last_result, sheet0, fmt0, upfail,
                sheetR, ncrash, gemini_2nd_run, now, q, qcell, rets, blocked_call, posted>>

\* top of the while loop: gemini_is_blocked(), then channel.history(limit=50) is fetched
TaskTop(t) ==
    /\ tasks[t].pc = "top"
    /\ ~blocked_now(now, gemini_blocked_until)
    /\ gemini_blocked_until' = after_is_blocked(now, gemini_blocked_until)
    /\ tasks' = [tasks EXCEPT ![t].pc = "iter", ![t].todo = ids_of(inbox)]
    /\ TaskFrame
    /\ UNCHANGED <<sheet, fmt, ndone, hist, inbox, processing_ids>>

\* "if message.id in processing_ids: continue"
TaskSkip(t) ==
    /\ tasks[t].pc = "iter"
    /\ tasks[t].todo # <<>>
    /\ Head(tasks[t].todo) \in processing_ids
    /\ tasks' = [tasks EXCEPT ![t].todo = Tail(@)]
    /\ TaskFrame
    /\ UNCHANGED <<sheet, fmt, ndone, hist, inbox, processing_ids, gemini_blocked_until>>

\* the message passes the processing_ids test; await already_processed(message)
TaskPick(t) ==
    /\ tasks[t].pc = "iter"
    /\ tasks[t].todo # <<>>
    /\ Head(tasks[t].todo) \notin processing_ids
    /\ tasks' = [tasks EXCEPT ![t].pc = "check", ![t].msg = Head(tasks[t].todo),
                              ![t].todo = Tail(@)]
    /\ TaskFrame
    /\ UNCHANGED <<sheet, fmt, ndone, hist, inbox, processing_ids, gemini_blocked_until>>

\* already_processed answers: a message that is gone counts as processed;
\* otherwise process_image begins: processing_ids.add, await channel.send
TaskChecked(t) ==
    /\ tasks[t].pc = "check"
    /\ IF tasks[t].msg \in {inbox[i].id : i \in 1..Len(inbox)}
       THEN /\ tasks' = [tasks EXCEPT ![t].pc = "status"]
            /\ processing_ids' = processing_ids \cup {tasks[t].msg}
            /\ ndone' = ndone + 1
       ELSE /\ tasks' = [tasks EXCEPT ![t].pc = "iter"]
            /\ UNCHANGED <<processing_ids, ndone>>
    /\ TaskFrame
    /\ UNCHANGED <<sheet, fmt, hist, inbox, gemini_blocked_until>>

\* data = analyse_image(tmp_path); get_sheet(); await find_last_race_box(channel)
TaskExtract(t, u) ==
    LET a == analyse_image(gemini_2nd_run, u, u)
    IN  /\ tasks[t].pc = "status"
        /\ tasks' = IF a.result = "ok"
                    THEN [tasks EXCEPT ![t].pc = "box", ![t].data = a.data]
                    ELSE [tasks EXCEPT ![t].pc = "failed"]
        /\ TaskFrame
        /\ UNCHANGED <<sheet, fmt, ndone, hist, inbox, processing_ids,
                       gemini_blocked_until>>

\* write_results(sheet, data, rennen_override=aktuelles_rennen), then the awaits
\* that post the picture
TaskWrite(t) ==
    /\ tasks[t].pc = "box"
    /\ sheet' = write_results_sheet(sheet, tasks[t].data, rennen)
    /\ fmt' = write_results_fmt(fmt, sheet, tasks[t].data, rennen)
    /\ hist' = Append(hist, grid_label_of(tasks[t].data))
    /\ tasks' = [tasks EXCEPT ![t].pc = "posted"]
    /\ TaskFrame
    /\ UNCHANGED <<ndone, inbox, processing_ids, gemini_blocked_until>>

\* processing_ids.discard(message.id); back in scan_channel the post is deleted
\* (success) or marked with the error emoji, either way it is dealt with
TaskEnd(t) ==
    /\ tasks[t].pc \in {"posted", "failed"}
    /\ processing_ids' = processing_ids \ {tasks[t].msg}
    /\ inbox' = without(inbox, tasks[t].msg)
    /\ tasks' = [tasks EXCEPT ![t].pc = "iter", ![t].data = NoData, ![t].msg = 0]
    /\ TaskFrame
    /\ UNCHANGED <<sheet, fmt, ndone, hist, gemini_blocked_until>>

\* end of the history: await asyncio.sleep(POLL_INTERVAL)
TaskIdle(t) ==
    /\ tasks[t].pc = "iter"
    /\ tasks[t].todo = <<>>
    /\ tasks' = [tasks EXCEPT ![t].pc = "sleep"]
    /\ TaskFrame
    /\ UNCHANGED <<sheet, fmt, ndone, hist, inbox, processing_ids, gemini_blocked_until>>

\* the sleep is over
TaskWake(t) ==
    /\ tasks[t].pc = "sleep"
    /\ tasks' = [tasks EXCEPT ![t].pc = "top"]
    /\ TaskFrame
    /\ UNCHANGED <<sheet, fmt, ndone, hist, inbox, processing_ids, gemini_blocked_until>>

\* a user posts a screenshot; the newest message comes first in the history
PostImage ==
    /\ posted < MaxImages
    /\ posted' = posted + 1
    /\ inbox' = <<[kind |-> "image", id |-> posted + 1]>> \o inbox
    /\ UNCHANGED <<sheet, fmt, pc, data, rennen, block, shift_i, ndone, hist, last_result,
                   sheet0, fmt0, upfail, sheetR, ncrash, gemini_2nd_run, now,
                   gemini_blocked_until, q, qcell, rets, blocked_call, tasks,
                   processing_ids>>

NextTasks ==
    \/ OnReady
    \/ PostImage
    \/ \E t \in 1..Len(tasks) :
          \/ TaskTop(t)
          \/ TaskSkip(t)
          \/ TaskPick(t)
          \/ TaskChecked(t)
          \/ \E u \in TaskUpstream : TaskExtract(t, u)
          \/ TaskWrite(t)
          \/ TaskEnd(t)
          \/ TaskIdle(t)
          \/ TaskWake(t)

SpecTasks == InitTasks /\ [][NextTasks]_vars

\* C13: one record is reconciled at a time: while a task holds the extraction
\* result of one record and has not yet issued its store effects, no other
\* task has extracted another record.
C13_OneRecordAtATime ==
    \A t1, t2 \in 1..Len(tasks) :
        (extracted_unwritten(t1) /\ extracted_unwritten(t2)
            /\ tasks[t1].msg # tasks[t2].msg) => t1 = t2

----------------------------------------------------------------------------
(* write_results on one record, with the warnings it returns *)

NameInputs == { <<"A","l">>, <<"A","L">>, <<"a","l","9">>, <<"B","O">>,
                <<"Z","e","d">>, EmptyStr }

CarInputs == { A_gt, <<"g","t"," ","a">>, A_tab, <<"C","a","r"," ","A">>, A_unk }

LapInputs == { EmptyStr, BR_a, BR_b, <<"-">> }

\* what the fastest-lap time cell of the race holds before the record arrives
StoredLaps == { EmptyStr, <<"1","1","2","0","0","0">>, BR_a, <<"-">> }

OneDriver(n, a) ==
    [grid |-> S_1,
     fahrer |-> <<[position |-> 2, name |-> n, auto |-> a,
                   zeit |-> Z_d1, beste_runde |-> BR_a]>>]

TwoDrivers(l1, l2) ==
    [grid |-> S_1,
     fahrer |-> <<[position |-> 2, name |-> <<"A","l">>, auto |-> A_gt,
                   zeit |-> Z_d1, beste_runde |-> l2],
                  [position |-> 1, name |-> <<"B","O">>, auto |-> A_gt,
                   zeit |-> Z_abs, beste_runde |-> l1]>>]

WriteInputs ==
    {OneDriver(n, a) : n \in NameInputs, a \in CarInputs}
    \cup {TwoDrivers(l1, l2) : l1 \in LapInputs, l2 \in LapInputs}

\* a sheet whose fastest-lap cells of race r hold the driver "Cy" and the time v
stored_lap_sheet(r, v) ==
    IF v = EmptyStr THEN EmptySheet
    ELSE (fl_driver_cell(r) :> <<"C","y">>) @@ (fl_time_cell(r) :> v)

InitWrite ==
    /\ IdleBot
    /\ rennen = 7
    /\ sheet \in {stored_lap_sheet(7, v) : v \in StoredLaps}
    /\ sheet0 = sheet
    /\ pc = "w0"
    /\ data \in WriteInputs
    /\ gemini_2nd_run = 0
    /\ NoQuery

\* warnings, rennen, grid_label, first_pos = write_results(sheet, data, rennen)
WriteResults ==
    /\ pc = "w0"
    /\ pc' = "w1"
    /\ sheet' = write_results_sheet(sheet, data, rennen)
    /\ fmt' = write_results_fmt(fmt, sheet, data, rennen)
    /\ block' = resolve_block_ret(sheet, rennen, grid_label_of(data))
    /\ rets' = warnings_of(data)
    /\ UNCHANGED <<data, rennen, shift_i, ndone, hist, last_result, sheet0, fmt0, upfail,
                   sheetR, ncrash, gemini_2nd_run, now, gemini_blocked_until,
                   q, qcell, scan>>

SpecWrite == InitWrite /\ [][WriteResults]_vars

\* the record has been written
Written == pc = "w1"

\* number of warnings of one kind for one position
warned(kind, pos) ==
    Cardinality({i \in 1..Len(rets) : rets[i].kind = kind /\ rets[i].pos = pos})

is_red(c) == c \in DOMAIN fmt /\ fmt[c] = "red"

\* C14: a raw car name without an entry in car_translate_map that is in
\* car_list is written unchanged, its cell is not red and no car warning is
\* returned; one that is in neither is written unchanged and flagged.
C14_CanonicalCarNotFlagged ==
    Written =>
        \A i \in 1..Len(data.fahrer) :
            LET f    == data.fahrer[i]
                cell == get_cell(rennen, block, f.position, "car")
                canonical == \E j \in 1..Len(car_list) : car_list[j] = f.auto
            IN  lower(f.auto) \notin DOMAIN car_translate_map =>
                    /\ cell_value(sheet, cell) = f.auto
                    /\ canonical => (~is_red(cell)
                                     /\ warned("Auto nicht erkannt", f.position) = 0)
                    /\ ~canonical => (is_red(cell)
                                      /\ warned("Auto nicht erkannt", f.position) = 1)

\* C15: the lower-cased raw name is looked up in driver_map, then in
\* gt7_name_map, and the first hit gives the written name and team ("BO" is
\* the table name of Bo and the GT7 name of Cy: Bo is written); a name in
\* neither map is written unchanged with an empty team, its driver cell is
\* red and exactly one "Fahrer nicht in Fahrerliste" warning is returned for
\* it; in every case the car and racetime cells of the driver are written.
C15_DriverResolution ==
    Written =>
        \A i \in 1..Len(data.fahrer) :
            LET f    == data.fahrer[i]
                k    == lower(f.name)
                drv  == get_cell(rennen, block, f.position, "driver")
                team == get_cell(rennen, block, f.position, "team")
                n_warn == warned("Fahrer nicht in Fahrerliste", f.position)
            IN  /\ k \in DOMAIN driver_map =>
                    /\ cell_value(sheet, drv) = driver_map[k].name
                    /\ cell_value(sheet, team) = driver_map[k].team
                    /\ ~is_red(drv) /\ n_warn = 0
                /\ (k \notin DOMAIN driver_map /\ k \in DOMAIN gt7_name_map) =>
                    /\ cell_value(sheet, drv) = gt7_name_map[k].name
                    /\ cell_value(sheet, team) = gt7_name_map[k].team
                    /\ ~is_red(drv) /\ n_warn = 0
                /\ (k \notin DOMAIN driver_map /\ k \notin DOMAIN gt7_name_map) =>
                    /\ cell_value(sheet, drv) = f.name
                    /\ cell_value(sheet, team) = EmptyStr
                    /\ is_red(drv) /\ n_warn = 1
                /\ f.name = <<"B","O">> => cell_value(sheet, drv) = <<"B","o">>
                /\ f.name = <<"a","l","9">> =>
                    (cell_value(sheet, drv) = <<"A","l">>
                     /\ cell_value(sheet, team) = <<"T","1">>)
                /\ cell_value(sheet, get_cell(rennen, block, f.position, "car"))
                       = resolve_car(f.auto).auto
                /\ cell_value(sheet, get_cell(rennen, block, f.position, "racetime"))
                       = num_or_empty(clean_time(f.zeit).racetime)
                /\ cell_value(sheet, get_grid_label_cell(rennen, block)) = S_1

\* an unknown driver has been written with its warning
C15_Witness ==
    /\ Written
    /\ data = OneDriver(<<"Z","e","d">>, A_gt)
    /\ cell_value(sheet, get_cell(rennen, block, 2, "driver")) = <<"Z","e","d">>
    /\ is_red(get_cell(rennen, block, 2, "driver"))
    /\ warned("Fahrer nicht in Fahrerliste", 2) = 1

\* the drivers of the record whose beste_runde has a digit
lap_drivers == {i \in 1..Len(data.fahrer) :
                    digits_of(get(data.fahrer[i], "beste_runde")) # <<>>}

lap_value(i) == int_of(digits_of(get(data.fahrer[i], "beste_runde")))

\* the driver at the lowest position among those with the smallest lap value
best_lap_driver ==
    CHOOSE i \in lap_drivers :
        \A j \in lap_drivers :
            \/ lap_value(i) < lap_value(j)
            \/ (lap_value(i) = lap_value(j)
                /\ data.fahrer[i].position <= data.fahrer[j].position)

\* the name write_results wrote for that driver
best_lap_name ==
    cell_value(sheet, get_cell(rennen, block, data.fahrer[best_lap_driver].position,
                               "driver"))

stored_time == cell_value(sheet0, fl_time_cell(rennen))

\* the fastest-lap cells hold the candidate of the record
lap_overwritten ==
    /\ cell_value(sheet, fl_driver_cell(rennen)) = best_lap_name
    /\ cell_value(sheet, fl_time_cell(rennen)) = str_of(lap_value(best_lap_driver))

\* the fastest-lap cells are as the record found them
lap_unchanged ==
    /\ cell_value(sheet, fl_driver_cell(rennen)) = cell_value(sheet0, fl_driver_cell(rennen))
    /\ cell_value(sheet, fl_time_cell(rennen)) = stored_time

----------------------------------------------------------------------------
(* clean_time on single tokens *)

MaxTokenLen == 4

TimeChars == {"2", "0", ":", "-", " ", "L", "a", "P"}

\* every text of n characters of TimeChars
RECURSIVE texts_of(_)
texts_of(n) ==
    IF n = 0 THEN {EmptyStr}
    ELSE {Append(t, c) : t \in texts_of(n - 1), c \in TimeChars}

NamedTokens ==
    { Z_abs, Z_d1, Z_d2, Z_laps, Z_dnf, BR_a,
      <<"d","n","f">>, <<" ","D","n","F"," ">>, <<"D","N","F","2">>,
      <<",",".",":","-">>, <<" ",",","."," ">>, <<",","5">>,
      <<"1","2","R","u","n","d","e">>, <<"3"," "," ","L","A","P","S">>,
      <<"2"," ","l","a","p","\n">>, <<"+","2"," ","L","a","p","s">>,
      <<"2"," ","R","u","n","d">>, <<"L","a","p"," ","2">>,
      <<"2"," ","L","a","p","s","!">>, <<"\t"," ">>, <<"n","/","a">> }

\* the named tokens and every text of at most n characters
TimeTokens(n) == UNION {texts_of(k) : k \in 0..n} \cup NamedTokens

InitTime ==
    /\ IdleBot
    /\ rennen = 7
    /\ sheet = EmptySheet
    /\ sheet0 = EmptySheet
    /\ pc = "t0"
    /\ data \in {[zeit |-> t] : t \in TimeTokens(MaxTokenLen)}
    /\ gemini_2nd_run = 0
    /\ NoQuery

\* racetime, laps = clean_time(zeit)
CleanTime ==
    /\ pc = "t0"
    /\ pc' = "t1"
    /\ rets' = <<clean_time(data.zeit)>>
    /\ UNCHANGED <<sheet, fmt, data, rennen, block, shift_i, ndone, hist, last_result,
                   sheet0, fmt0, upfail, sheetR, ncrash, gemini_2nd_run, now,
                   gemini_blocked_until, q, qcell, scan>>

SpecTime == InitTime /\ [][CleanTime]_vars

\* the token without the white space around it
token == strip(data.zeit)

all_in(t, chars) == \A i \in 1..Len(t) : t[i] \in chars

\* the token is k digits, white space, and a lap word in any letter case
lap_phrase(t, k) ==
    /\ k \in 1..Len(t)
    /\ \A i \in 1..k : IsDigit(t[i])
    /\ \E m \in k..Len(t) :
          /\ \A i \in (k + 1)..m : IsSpace(t[i])
          /\ lower(SubSeq(t, m + 1, Len(t))) \in LapWords

nothing == [racetime |-> None, laps |-> None]

\* C16: clean_time sets at most one of racetime and laps and no negative
\* racetime; empty and white-space tokens, DNF in any case and tokens of only
\* colon, dash, comma and period give (None, None); digits followed by
\* Runde, Runden, Lap or Laps in any case give (None, the digits as integer).
C16_CleanTimeShape ==
    pc = "t1" =>
        /\ rets[1].racetime = None \/ rets[1].laps = None
        /\ rets[1].racetime # None => rets[1].racetime >= 0
        /\ token = EmptyStr => rets[1] = nothing
        /\ lower(token) = <<"d","n","f">> => rets[1] = nothing
        /\ (token # EmptyStr /\ all_in(token, {":", "-", ",", "."})) => rets[1] = nothing
        /\ \A k \in 1..Len(token) :
              lap_phrase(token, k) =>
                  rets[1] = [racetime |-> None, laps |-> int_of(SubSeq(token, 1, k))]

C16_Witness ==
    /\ pc = "t1"
    /\ data.zeit = <<"3"," "," ","L","A","P","S">>
    /\ rets = <<[racetime |-> None, laps |-> 3]>>

\* C17: a token that is not empty, not DNF, not made of separators only and
\* not a lap phrase gives as racetime the number its digits spell in order,
\* None if it has no digit, and no laps; "+06,425" gives 6425, "50:28,752"
\* gives 5028752, "2 Runden" gives (None, 2) and "DNF" gives (None, None).
C17_RacetimeFromDigits ==
    pc = "t1" =>
        /\ (/\ token # EmptyStr
            /\ lower(token) # <<"d","n","f">>
            /\ ~all_in(token, {":", "-", ",", "."})
            /\ \A k \in 1..Len(token) : ~lap_phrase(token, k))
           => rets[1] = [racetime |-> IF digits_of(data.zeit) = <<>> THEN None
                                      ELSE int_of(digits_of(data.zeit)),
                         laps |-> None]
        /\ data.zeit = Z_d1 => rets[1] = [racetime |-> 6425, laps |-> None]
        /\ data.zeit = Z_abs => rets[1] = [racetime |-> 5028752, laps |-> None]
        /\ data.zeit = Z_laps => rets[1] = [racetime |-> None, laps |-> 2]
        /\ data.zeit = Z_dnf => rets[1] = nothing

C17_Witness ==
    /\ pc = "t1"
    /\ data.zeit = Z_abs
    /\ rets = <<[racetime |-> 5028752, laps |-> None]>>

----------------------------------------------------------------------------
(* validate_deltas on lists of results *)

MaxPos == 4

Z_d5 == <<"+","0","5",",","0","0","0">>

DeltaTokens == {Z_abs, Z_d1, Z_d2, Z_d5, Z_laps, Z_dnf}

\* the results of the positions ps with the times z, in ascending position order
RECURSIVE ascending(_, _)
ascending(ps, z) ==
    IF ps = {} THEN <<>>
    ELSE LET p == CHOOSE x \in ps : \A y \in ps : x <= y
         IN  <<[position |-> p, zeit |-> z[p]]>> \o ascending(ps \ {p}, z)

reversed(l) == [i \in 1..Len(l) |-> l[Len(l) + 1 - i]]

\* every list over a subset of the positions 1..n
DeltaInputs(n) ==
    UNION {{ascending(ps, z) : z \in [ps -> DeltaTokens]} : ps \in SUBSET (1..n)}

InitDelta ==
    /\ IdleBot
    /\ rennen = 7
    /\ sheet = EmptySheet
    /\ sheet0 = EmptySheet
    /\ pc = "d0"
    /\ \E l \in DeltaInputs(MaxPos) : data \in {[fahrer |-> l], [fahrer |-> reversed(l)]}
    /\ gemini_2nd_run = 0
    /\ NoQuery

\* delta_errors = validate_deltas(fahrer_list)
ValidateDeltas ==
    /\ pc = "d0"
    /\ pc' = "d1"
    /\ rets' = <<validate_deltas(data.fahrer)>>
    /\ UNCHANGED <<sheet, fmt, data, rennen, block, shift_i, ndone, hist, last_result,
                   sheet0, fmt0, upfail, sheetR, ncrash, gemini_2nd_run, now,
                   gemini_blocked_until, q, qcell, scan>>

SpecDelta == InitDelta /\ [][ValidateDeltas]_vars

\* the positions of the list and the time token of each
positions_of == {data.fahrer[i].position : i \in 1..Len(data.fahrer)}

zeit_at(p) == data.fahrer[CHOOSE i \in 1..Len(data.fahrer) : data.fahrer[i].position = p].zeit

racetime_at(p) == clean_time(zeit_at(p)).racetime

\* a position other than 1 whose token parses as a racetime
parsable(p) == p \in positions_of /\ p # 1 /\ racetime_at(p) # None

\* the parsable positions before p
earlier(p) == {x \in positions_of : x < p /\ parsable(x)}

\* the nearest parsable position before p
baseline_of(p) == CHOOSE x \in earlier(p) : \A y \in earlier(p) : y <= x

\* C18: validate_deltas returns exactly the positions other than 1 with a
\* parsable racetime that have an earlier parsable position other than 1 and
\* whose racetime is not greater than that of the nearest such position, be it
\* flagged or not; equal values are flagged; unparsable positions are never
\* returned and are no baseline. [1: "50:28,752", 2: "+06,425", 3: "+03,000"]
\* gives position 3 only.
C18_ExactDeltaFlags ==
    pc = "d1" =>
        /\ rets[1] = {p \in positions_of :
                        /\ parsable(p)
                        /\ earlier(p) # {}
                        /\ racetime_at(p) <= racetime_at(baseline_of(p))}
        /\ data.fahrer = <<[position |-> 1, zeit |-> Z_abs], [position |-> 2, zeit |-> Z_d1],
                           [position |-> 3, zeit |-> Z_d2]>> => rets[1] = {3}

\* equal times at 2 and 4 with a DNF between them: 4 is flagged, 3 is not
C18_Witness ==
    /\ pc = "d1"
    /\ data.fahrer = <<[position |-> 4, zeit |-> Z_d1], [position |-> 3, zeit |-> Z_dnf],
                       [position |-> 2, zeit |-> Z_d1], [position |-> 1, zeit |-> Z_abs]>>
    /\ rets[1] = {4}

\* the number the digits of the token at p spell
digit_value(p) == int_of(digits_of(zeit_at(p)))

\* p and p + 1 are positions of the list, neither is position 1
consecutive(p) == p # 1 /\ p \in positions_of /\ (p + 1) \in positions_of

\* C19 as stated: for tokens with digits at two consecutive positions other
\* than 1, the later position is not flagged when the digits of the earlier
\* spell the smaller number, and is flagged when they spell the larger one.
C19_OrderByDigits ==
    pc = "d1" =>
        \A p \in 1..MaxPos :
            (consecutive(p) /\ digits_of(zeit_at(p)) # <<>>
                            /\ digits_of(zeit_at(p + 1)) # <<>>) =>
                /\ digit_value(p) < digit_value(p + 1) => (p + 1) \notin rets[1]
                /\ digit_value(p + 1) < digit_value(p) => (p + 1) \in rets[1]

\* C19: for two tokens that clean_time parses as racetimes, at two
\* consecutive positions other than 1, the later position is not flagged
\* when the earlier racetime is the smaller one, and is flagged when it is
\* the larger one.
C19_OrderByRacetime ==
    pc = "d1" =>
        \A p \in 1..MaxPos :
            (consecutive(p) /\ parsable(p) /\ parsable(p + 1)) =>
                /\ digit_value(p) < digit_value(p + 1) => (p + 1) \notin rets[1]
                /\ digit_value(p + 1) < digit_value(p) => (p + 1) \in rets[1]

\* 6425, then the flagged 3000, then 5000: position 4 follows a smaller time
C19_Witness ==
    /\ pc = "d1"
    /\ data.fahrer = <<[position |-> 2, zeit |-> Z_d1], [position |-> 3, zeit |-> Z_d2],
                       [position |-> 4, zeit |-> Z_d5]>>
    /\ rets[1] = {3}

----------------------------------------------------------------------------
(* the fastest lap of one race over several records *)

MaxLapRecords == 3

\* a record whose driver at position 1 has no name and the smaller lap value
Nameless(l1, l2) ==
    [grid |-> S_1,
     fahrer |-> <<[position |-> 1, name |-> EmptyStr, auto |-> A_gt,
                   zeit |-> Z_abs, beste_runde |-> l1],
                  [position |-> 2, name |-> <<"A","l">>, auto |-> A_gt,
                   zeit |-> Z_d1, beste_runde |-> l2]>>]

LapRecords ==
    {TwoDrivers(l1, l2) : l1 \in LapInputs, l2 \in LapInputs}
    \cup {Nameless(BR_b, BR_a), Nameless(BR_a, BR_a)}

\* the lap values of the drivers of d
lap_values(d) ==
    {int_of(digits_of(get(d.fahrer[i], "beste_runde"))) :
        i \in {j \in 1..Len(d.fahrer) : digits_of(get(d.fahrer[j], "beste_runde")) # <<>>}}

\* the smallest of the lap values seen before (None if none) and those of d
min_seen(m, d) ==
    LET vs == lap_values(d) \cup (IF m = None THEN {} ELSE {m})
    IN  IF vs = {} THEN None ELSE CHOOSE v \in vs : \A w \in vs : v <= w

\* the written name of the driver at the lowest position of d with the lap value v
setter(d, v) ==
    LET sl == sort_by_position(d.fahrer)
        i  == CHOOSE j \in 1..Len(sl) :
                 /\ digits_of(get(sl[j], "beste_runde")) # <<>>
                 /\ int_of(digits_of(get(sl[j], "beste_runde"))) = v
                 /\ \A k \in 1..(j - 1) :
                        \/ digits_of(get(sl[k], "beste_runde")) = <<>>
                        \/ int_of(digits_of(get(sl[k], "beste_runde"))) # v
    IN  resolve_driver(sl[i].name).name

InitLaps ==
    /\ IdleBot
    /\ rennen = 7
    /\ sheet = EmptySheet
    /\ sheet0 = EmptySheet
    /\ pc = "laps"
    /\ data = NoData
    /\ gemini_2nd_run = 0
    /\ q = <<0, 1, "grid_label">>
    /\ qcell = get_cell(rennen, 0, 1, "grid_label")
    /\ rets = <<None, EmptyStr>>

\* write_results(sheet, d, rennen) for the next record of the race; rets keeps
\* the smallest lap value of all records so far and the driver who set it first
Reconcile(d) ==
    /\ ndone < MaxLapRecords
    /\ ndone' = ndone + 1
    /\ data' = d
    /\ sheet0' = sheet
    /\ sheet' = write_results_sheet(sheet, d, rennen)
    /\ fmt' = write_results_fmt(fmt, sheet, d, rennen)
    /\ block' = resolve_block_ret(sheet, rennen, grid_label_of(d))
    /\ rets' = IF min_seen(rets[1], d) = rets[1] THEN rets
               ELSE <<min_seen(rets[1], d), setter(d, min_seen(rets[1], d))>>
    /\ UNCHANGED <<pc, rennen, shift_i, hist, last_result, fmt0, upfail, sheetR, ncrash,
                   gemini_2nd_run, now, gemini_blocked_until, q, qcell, scan>>

NextLaps == \E d \in LapRecords : Reconcile(d)

SpecLaps == InitLaps /\ [][NextLaps]_vars

\* C21: after every record the stored fastest-lap time is not larger than the
\* one stored before, it is the smallest lap value of all records of the race
\* so far, and the stored driver is the one who set it.
C21_FastestLapIsMinimum ==
    ndone > 0 =>
        LET before == digits_of(cell_value(sheet0, fl_time_cell(rennen)))
            after  == digits_of(cell_value(sheet, fl_time_cell(rennen)))
        IN  /\ before # <<>> => (after # <<>> /\ int_of(after) <= int_of(before))
            /\ rets[1] = None => after = <<>>
            /\ rets[1] # None =>
                  /\ after # <<>> /\ int_of(after) = rets[1]
                  /\ cell_value(sheet, fl_driver_cell(rennen)) = rets[2]

----------------------------------------------------------------------------
(* write_results on one record after the other, each one completely *)

MaxRecords == 3

Z_sep == <<"-", "-", ":", "-", "-">>

D_2     == [grid |-> S_2, fahrer |-> <<F_bo1>>]
D_empty == [grid |-> S_2, fahrer |-> <<>>]
D_sep   == [grid |-> S_2a,
            fahrer |-> <<[position |-> 4, name |-> <<"B","o">>, auto |-> A_tab],
                         [position |-> 3, name |-> <<"A","l">>, auto |-> A_gt,
                          zeit |-> EmptyStr],
                         [position |-> 2, name |-> <<"Z","e","d">>, auto |-> A_gt,
                          zeit |-> Z_sep],
                         F_al1>>]

\* records write_results accepts without raising
RecordInputs == {D_1, D_2, D_2a, D_3, D_3p2, D_2b, D_2B, D_x, D_empty, D_sep}

\* first_pos taken from the first driver as listed
first_pos_listed(d) ==
    IF Len(d.fahrer) = 0 THEN None ELSE d.fahrer[1].position

\* first_pos: the position of the first driver of the sorted list
first_pos_of(d) ==
    IF Len(d.fahrer) = 0 THEN None ELSE sort_by_position(d.fahrer)[1].position

\* page = 1 if (first_pos is None or first_pos == 1) else 2
page_of(first_pos) == IF first_pos = None \/ first_pos = 1 THEN 1 ELSE 2

InitRecords ==
    /\ IdleBot
    /\ rennen = 7
    /\ sheet = EmptySheet
    /\ sheet0 = EmptySheet
    /\ pc = "records"
    /\ data = NoData
    /\ gemini_2nd_run = 0
    /\ NoQuery

\* warnings, rennen, grid_label, first_pos = write_results(sheet, d, rennen),
\* and the page process_image derives from first_pos
ReconcileRecord(d) ==
    /\ ndone < MaxRecords
    /\ ndone' = ndone + 1
    /\ data' = d
    /\ sheet0' = sheet
    /\ fmt0' = fmt
    /\ sheetR' = resolve_block_sheet(sheet, rennen, grid_label_of(d))
    /\ shift_i' = IF resolve_block_shifts(sheet, rennen, grid_label_of(d))
                  THEN NShiftSteps ELSE 0
    /\ sheet' = write_results_sheet(sheet, d, rennen)
    /\ fmt' = write_results_fmt(fmt, sheet, d, rennen)
    /\ block' = resolve_block_ret(sheet, rennen, grid_label_of(d))
    /\ rets' = warnings_of(d)
    /\ hist' = Append(hist, grid_label_of(d))
    /\ last_result' = [grid |-> grid_label_of(d), result |-> "ok",
                       first_pos |-> first_pos_of(d),
                       page |-> page_of(first_pos_of(d))]
    /\ UNCHANGED <<pc, rennen, upfail, ncrash, gemini_2nd_run, now,
                   gemini_blocked_until, q, qcell, scan>>

NextRecords == \E d \in RecordInputs : ReconcileRecord(d)

SpecRecords == InitRecords /\ [][NextRecords]_vars

\* a record has been reconciled
Reconciled == ndone > 0

\* the cells written for the latest record
written_cells ==
    {get_grid_label_cell(rennen, block)}
    \cup {get_cell(rennen, block, data.fahrer[i].position, f) :
            i \in 1..Len(data.fahrer),
            f \in {"driver", "team", "car", "racetime", "laps"}}

\* a rule fired for the cell c of the latest record
rule_fired(c) ==
    \E i \in 1..Len(data.fahrer) :
        LET f == data.fahrer[i]
        IN  \/ /\ c = get_cell(rennen, block, f.position, "driver")
               /\ lower(f.name) \notin (DOMAIN driver_map) \cup (DOMAIN gt7_name_map)
            \/ /\ c = get_cell(rennen, block, f.position, "car")
               /\ lower(f.auto) \notin DOMAIN car_translate_map
            \/ /\ c = get_cell(rennen, block, f.position, "racetime")
               /\ f.position \in validate_deltas(data.fahrer)

C23_ManualEntryWarning ==
    Reconciled =>
        \A i \in 1..Len(data.fahrer) :
            LET f == data.fahrer[i]
            IN  clean_time(get(f, "zeit")).racetime = None =>
                    /\ cell_value(sheet, get_cell(rennen, block, f.position, "racetime"))
                           = EmptyStr
                    /\ cell_value(sheet, get_cell(rennen, block, f.position, "driver"))
                           = resolve_driver(f.name).name
                    /\ warned("Zeit muss manuell eingetragen werden", f.position) >= 1

\* C28: the first position write_results returns is the smallest position of
\* the record (None for a record without drivers), and the page derived from
\* it is 1 iff it is 1 or the record has no driver, otherwise 2.
C28_PageInference ==
    Reconciled =>
        LET ps == {data.fahrer[i].position : i \in 1..Len(data.fahrer)}
        IN  /\ ps = {} => (last_result.first_pos = None /\ last_result.page = 1)
            /\ ps # {} =>
                  /\ last_result.first_pos \in ps
                  /\ \A p \in ps : last_result.first_pos <= p
                  /\ last_result.page = 1 <=> last_result.first_pos = 1
                  /\ last_result.page = 2 <=> last_result.first_pos # 1

\* a record listing position 20 before position 11 is taken as page 2
C28_Witness ==
    /\ Reconciled
    /\ data = D_3p2
    /\ last_result.first_pos = 11
    /\ last_result.page = 2

\* the label cell of block b of the race
label_at(s, b) == cell_value(s, get_grid_label_cell(rennen, b))

\* the latest record made resolve_block relocate block 2
relocated == shift_i # 0

\* C26: over any sequence of reconciled records no reconciliation replaces a
\* non-empty label in a block's label cell by a different label, apart from
\* the relocation of block 2 to block 3.
C26_LabelsOnlyRelocated ==
    Reconciled =>
        \A b \in Blocks :
            (label_at(sheet0, b) # EmptyStr /\ label_at(sheet, b) # label_at(sheet0, b))
                => (relocated /\ b \in {2, 3})

KnownLabels == {S_1, S_2, S_2a, S_2b, S_3}

\* C30: starting from empty label cells, after any sequence of completely
\* reconciled records whose labels are "1", "2", "2a", "2b" or "3", no two of
\* the four label cells of the race hold the same non-empty label; block 0
\* holds "" or "1", block 1 "", "2" or "2a", block 2 "", "3" or "2b", and
\* block 3 "" or "3".
C30_LabelUniqueness ==
    (\A i \in 1..Len(hist) : hist[i] \in KnownLabels) =>
        /\ \A b1, b2 \in Blocks :
              (b1 # b2 /\ label_at(sheet, b1) # EmptyStr)
                  => label_at(sheet, b1) # label_at(sheet, b2)
        /\ label_at(sheet, 0) \in {EmptyStr, S_1}
        /\ label_at(sheet, 1) \in {EmptyStr, S_2, S_2a}
        /\ label_at(sheet, 2) \in {EmptyStr, S_3, S_2b}
        /\ label_at(sheet, 3) \in {EmptyStr, S_3}

\* "3", then "2b", then "3" again: block 2 holds "2b" and block 3 holds "3"
C30_Witness ==
    /\ hist = <<S_3, S_2b, S_3>>
    /\ label_at(sheet, 2) = S_2b
    /\ label_at(sheet, 3) = S_3
    /\ block = 3

----------------------------------------------------------------------------
(* screenshot_sort_key and the sort of cmd_sort *)

MaxItems == 3

GRID_ORDER ==
    (S_1 :> 0) @@ (S_2 :> 1) @@ (S_2a :> 1) @@ (S_2b :> 2) @@ (S_3 :> 3)

\* parse_screenshot_meta_from_msg returned None
NoMeta == [none |-> TRUE]

is_none(meta) == "grid" \notin DOMAIN meta

\* a key that ranks the heats by the digit of their label
screenshot_sort_key_by_digit(meta) ==
    IF is_none(meta) THEN <<999, 999>>
    ELSE LET g == lower(meta.grid)
         IN  <<(IF g = S_1 THEN 0 ELSE IF g \in {S_2, S_2a, S_2b} THEN 1
                ELSE IF g = S_3 THEN 3 ELSE 99), meta.page>>

screenshot_sort_key(meta) ==
    IF is_none(meta) THEN <<999, 999>>
    ELSE LET g == lower(meta.grid)
         IN  <<(IF g \in DOMAIN GRID_ORDER THEN GRID_ORDER[g] ELSE 99), meta.page>>

\* comparison of two keys as Python compares tuples
key_less(a, b) == a[1] < b[1] \/ (a[1] = b[1] /\ a[2] < b[2])

\* list.sort(key = ...) is stable: x goes behind every entry whose key is
\* not greater than its own
RECURSIVE insert_stable(_, _, _)
insert_stable(sorted, x, key) ==
    IF sorted = <<>> THEN <<x>>
    ELSE IF key_less(key[x], key[Head(sorted)]) THEN <<x>> \o sorted
    ELSE <<Head(sorted)>> \o insert_stable(Tail(sorted), x, key)

\* the indices xs[1..n] in sorted order
RECURSIVE sort_stable(_, _, _)
sort_stable(xs, n, key) ==
    IF n = 0 THEN <<>>
    ELSE insert_stable(sort_stable(xs, n - 1, key), xs[n], key)

\* the messages of the channel that cmd_sort collects: those with metadata
collected(items) == SelectSeq([i \in 1..Len(items) |-> i],
                              LAMBDA i : ~is_none(items[i]))

\* the order in which cmd_sort posts the screenshots again, as indices
\* into the messages read from the channel
cmd_sort_order(items) ==
    sort_stable(collected(items), Len(collected(items)),
                [i \in 1..Len(items) |-> screenshot_sort_key(items[i])])

SortGrids == {S_1, S_2, <<"2", "A">>, S_2b, S_3, <<"x">>}
SortPages == {1, 2}
SortItems == {[grid |-> g, page |-> p] : g \in SortGrids, p \in SortPages}
                 \cup {NoMeta}

ItemLists(n) == UNION {[1..k -> SortItems] : k \in 1..n}

InitSort ==
    /\ IdleBot
    /\ rennen = 7
    /\ sheet = EmptySheet
    /\ sheet0 = EmptySheet
    /\ pc = "s0"
    /\ data \in ItemLists(MaxItems)
    /\ gemini_2nd_run = 0
    /\ NoQuery

\* screenshot_sort_key(meta) for every message
SortKeys ==
    /\ pc = "s0"
    /\ pc' = "keys"
    /\ rets' = [i \in 1..Len(data) |-> screenshot_sort_key(data[i])]
    /\ UNCHANGED <<sheet, fmt, data, rennen, block, shift_i, ndone, hist, last_result,
                   sheet0, fmt0, upfail, sheetR, ncrash, gemini_2nd_run, now,
                   gemini_blocked_until, q, qcell, scan>>

\* cmd_sort up to screenshots.sort(...)
CmdSort ==
    /\ pc = "s0"
    /\ pc' = "sorted"
    /\ rets' = cmd_sort_order(data)
    /\ UNCHANGED <<sheet, fmt, data, rennen, block, shift_i, ndone, hist, last_result,
                   sheet0, fmt0, upfail, sheetR, ncrash, gemini_2nd_run, now,
                   gemini_blocked_until, q, qcell, scan>>

NextSort == SortKeys \/ CmdSort

SpecSort == InitSort /\ [][NextSort]_vars

\* the rank the claim gives to a heat label
heat_rank(g) ==
    CASE g = S_1 -> 0
      [] g \in {S_2, S_2a, <<"2", "A">>} -> 1
      [] g = S_2b -> 2
      [] g = S_3 -> 3
      [] OTHER -> 99

\* a comes before b by heat rank, then by page
meta_before(a, b) ==
    \/ heat_rank(a.grid) < heat_rank(b.grid)
    \/ (heat_rank(a.grid) = heat_rank(b.grid) /\ a.page < b.page)

\* C24: the keys order (heat label, page) pairs by heat rank first ("1" = 0,
\* "2" and "2a" = 1, "2b" = 2, "3" = 3, an unknown label above all of these)
\* and by ascending page within a rank; the key of an item without metadata
\* is greater than that of every item with metadata; the sort of cmd_sort
\* returns the collected items ordered by key, each once, with items of equal
\* key in their original order.
C24_SortKeyOrder ==
    /\ pc = "keys" =>
          \A i, j \in 1..Len(data) :
              /\ (~is_none(data[i]) /\ ~is_none(data[j])) =>
                    (key_less(rets[i], rets[j]) <=> meta_before(data[i], data[j]))
              /\ (is_none(data[i]) /\ ~is_none(data[j])) =>
                    key_less(rets[j], rets[i])
    /\ pc = "sorted" =>
          /\ {rets[k] : k \in 1..Len(rets)} = {i \in 1..Len(data) : ~is_none(data[i])}
          /\ \A k, l \in 1..Len(rets) :
                k < l =>
                    /\ rets[k] # rets[l]
                    /\ ~meta_before(data[rets[l]], data[rets[k]])
                    /\ (~meta_before(data[rets[k]], data[rets[l]])) => rets[k] < rets[l]

\* heat 3 page 1, heat 2A page 2 and heat 2 page 2 come out as 2A, 2, 3
C24_Witness ==
    /\ pc = "sorted"
    /\ data = <<[grid |-> S_3, page |-> 1], [grid |-> <<"2", "A">>, page |-> 2],
                [grid |-> S_2, page |-> 2]>>
    /\ rets = <<2, 3, 1>>

----------------------------------------------------------------------------
(* get_marker_emojis and parse_meta_from_reactions *)

\* the keys of GRID_EMOJI in the order of the dict
GRID_EMOJI_KEYS == <<S_1, S_2, S_2a, S_2b, S_3>>

\* "2" and "2a" have the same emoji
GRID_EMOJI(gl) ==
    CASE gl = S_1  -> "yellow"
      [] gl = S_2  -> "blue"
      [] gl = S_2a -> "blue"
      [] gl = S_2b -> "red"
      [] gl = S_3  -> "green"

PAGE_EMOJI_KEYS == <<1, 2>>

PAGE_EMOJI(pg) == IF pg = 1 THEN "up" ELSE "down"

QuestionMark == "?"

in_seq(x, s) == \E i \in 1..Len(s) : s[i] = x

\* (g, p) = get_marker_emojis(grid_label, page)
get_marker_emojis(grid_label, page) ==
    <<(IF in_seq(lower(grid_label), GRID_EMOJI_KEYS)
       THEN GRID_EMOJI(lower(grid_label)) ELSE QuestionMark),
      (IF in_seq(page, PAGE_EMOJI_KEYS) THEN PAGE_EMOJI(page) ELSE QuestionMark)>>

\* found_grid after the loop over GRID_EMOJI for the emoji e, starting
\* from None: << >> for None, else the first key whose emoji is e
grid_of_emoji(e) ==
    LET hits == {k \in 1..Len(GRID_EMOJI_KEYS) : GRID_EMOJI(GRID_EMOJI_KEYS[k]) = e}
    IN  IF hits = {} THEN <<>>
        ELSE <<GRID_EMOJI_KEYS[CHOOSE k \in hits : \A l \in hits : k <= l]>>

\* the key of PAGE_EMOJI whose emoji is e, None if there is none
page_of_emoji(e) ==
    LET hits == {k \in 1..Len(PAGE_EMOJI_KEYS) : PAGE_EMOJI(PAGE_EMOJI_KEYS[k]) = e}
    IN  IF hits = {} THEN None
        ELSE PAGE_EMOJI_KEYS[CHOOSE k \in hits : \A l \in hits : k >= l]

\* found_grid and found_page after the first n reactions
RECURSIVE meta_scan(_, _)
meta_scan(reactions, n) ==
    IF n = 0 THEN [grid |-> <<>>, page |-> None]
    ELSE LET before == meta_scan(reactions, n - 1)
             rc     == reactions[n]
         IN  IF ~rc.me THEN before
             ELSE [grid |-> IF before.grid = <<>> THEN grid_of_emoji(rc.emoji)
                            ELSE before.grid,
                   page |-> IF page_of_emoji(rc.emoji) # None
                            THEN page_of_emoji(rc.emoji) ELSE before.page]

\* parse_meta_from_reactions(reactions, bot_id)
parse_meta_from_reactions(reactions) ==
    LET found == meta_scan(reactions, Len(reactions))
    IN  IF found.grid # <<>> /\ found.page # None
        THEN [grid |-> found.grid[1], page |-> found.page]
        ELSE NoMeta

\* the reactions of a post the bot marked with (g, p): the two of the bot
\* in the order it added them
bot_reactions(marks) ==
    <<[emoji |-> marks[1], me |-> TRUE], [emoji |-> marks[2], me |-> TRUE]>>

MarkerGrids == {S_1, S_2, S_2a, S_2b, S_3, <<"2", "A">>, <<"x">>}
MarkerPages == {1, 2, 3}
MarkerEmojis == {"yellow", "blue", "red", "green", "up", "down", "?"}

\* reactions of other users on the post, before or after those of the bot
OtherReactions ==
    {<<>>} \cup {<<[emoji |-> e, me |-> FALSE]>> : e \in MarkerEmojis}

InitMarkers ==
    /\ IdleBot
    /\ rennen = 7
    /\ sheet = EmptySheet
    /\ sheet0 = EmptySheet
    /\ pc = "m0"
    /\ data \in {[grid |-> g, page |-> p, first |-> a, last |-> b] :
                    g \in MarkerGrids, p \in MarkerPages,
                    a \in OtherReactions, b \in OtherReactions}
    /\ gemini_2nd_run = 0
    /\ NoQuery

\* the reactions a user could not have added as their own: the bot's emoji
\* is one reaction, whoever else clicked it
post_reactions(d) ==
    LET marks == get_marker_emojis(d.grid, d.page)
        own(s) == SelectSeq(s, LAMBDA rc : rc.emoji \notin {marks[1], marks[2]})
    IN  own(d.first) \o bot_reactions(marks) \o own(d.last)

\* add_reaction(g_emoji), add_reaction(p_emoji), then the post is read back
MarkAndParse ==
    /\ pc = "m0"
    /\ pc' = "m1"
    /\ rets' = <<get_marker_emojis(data.grid, data.page),
                 parse_meta_from_reactions(post_reactions(data))>>
    /\ UNCHANGED <<sheet, fmt, data, rennen, block, shift_i, ndone, hist, last_result,
                   sheet0, fmt0, upfail, sheetR, ncrash, gemini_2nd_run, now,
                   gemini_blocked_until, q, qcell, scan>>

SpecMarkers == InitMarkers /\ [][MarkAndParse]_vars

\* C32: for every heat label g among "1", "2", "2a", "2b", "3" and page p
\* in {1, 2}, reading back the two reactions get_marker_emojis(g, p) produced
\* returns grid g and page p.
C32_MarkerRoundTrip ==
    (pc = "m1" /\ data.grid \in KnownLabels /\ data.page \in {1, 2}) =>
        rets[2] = [grid |-> data.grid, page |-> data.page]

----------------------------------------------------------------------------
(* The duplicate check of process_image: the bot's image posts since the
   last race box are kept in hist, oldest first, each as its two markers *)

MaxPosts == 3

InitPosts ==
    /\ IdleBot
    /\ rennen = 7
    /\ sheet = EmptySheet
    /\ sheet0 = EmptySheet
    /\ pc = "p0"
    /\ data = NoData
    /\ gemini_2nd_run = 0
    /\ NoQuery

\* old_meta and old_meta["grid"] == grid_label and old_meta["page"] == page
is_duplicate(marks, grid_label, page) ==
    LET old_meta == parse_meta_from_reactions(bot_reactions(marks))
    IN  /\ ~is_none(old_meta)
        /\ old_meta.grid = grid_label
        /\ old_meta.page = page

\* the posts left after the loop over channel.history: the first duplicate
\* is deleted, then the loop breaks
without_duplicate(posts, grid_label, page) ==
    LET hits == {i \in 1..Len(posts) : is_duplicate(posts[i], grid_label, page)}
    IN  IF hits = {} THEN posts
        ELSE LET first == CHOOSE i \in hits : \A j \in hits : i <= j
             IN  SubSeq(posts, 1, first - 1) \o SubSeq(posts, first + 1, Len(posts))

\* process_image from the duplicate check to success = True, for a record
\* written with this label and page
PostScreenshot(grid_label, page) ==
    /\ ndone < MaxPosts
    /\ ndone' = ndone + 1
    /\ pc' = "posted"
    /\ data' = [grid |-> grid_label, page |-> page]
    /\ hist' = Append(without_duplicate(hist, grid_label, page),
                      get_marker_emojis(grid_label, page))
    /\ rets' = hist
    /\ UNCHANGED <<sheet, fmt, rennen, block, shift_i, last_result, sheet0, fmt0,
                   upfail, sheetR, ncrash, gemini_2nd_run, now, gemini_blocked_until,
                   q, qcell, scan>>

\* a new race box is posted: the posts before it are no longer looked at
NewRaceBox ==
    /\ hist # <<>>
    /\ pc' = "box"
    /\ hist' = <<>>
    /\ rets' = <<>>
    /\ UNCHANGED <<sheet, fmt, data, rennen, block, shift_i, ndone, last_result,
                   sheet0, fmt0, upfail, sheetR, ncrash, gemini_2nd_run, now,
                   gemini_blocked_until, q, qcell, scan>>

NextPosts ==
    \/ \E grid_label \in KnownLabels, page \in {1, 2} : PostScreenshot(grid_label, page)
    \/ NewRaceBox

SpecPosts == InitPosts /\ [][NextPosts]_vars

\* C33: after every successful process_image there is, among the bot's image
\* posts since the last race box, at most one carrying the markers of a
\* given (heat label, page), for every heat label "1", "2", "2a", "2b", "3".
C33_OnePostPerHeatPage ==
    \A grid_label \in KnownLabels, page \in {1, 2} :
        Cardinality({i \in 1..Len(hist) :
                        hist[i] = get_marker_emojis(grid_label, page)}) <= 1

----------------------------------------------------------------------------
(* The pages of the heats of one race, reconciled in any order; hist keeps
   the records reconciled so far *)

MaxPages == 4

F_cy12 == [position |-> 12, name |-> <<"B","o">>, auto |-> A_tab,
           zeit |-> Z_laps, beste_runde |-> BR_a]

D_2bp2 == [grid |-> S_2b, fahrer |-> <<F_cy12, F_dnf11>>]

\* pages of the heats "1", "2", "2b" and "3"
HeatPages == {D_1, D_2, D_2b, D_2bp2, D_3, D_3p2}

InitHeats ==
    /\ IdleBot
    /\ rennen = 7
    /\ sheet = EmptySheet
    /\ sheet0 = EmptySheet
    /\ pc = "heats"
    /\ data = NoData
    /\ gemini_2nd_run = 0
    /\ NoQuery

\* write_results(sheet, d, rennen) from its call to its return
ReconcilePage(d) ==
    /\ ndone < MaxPages
    /\ ndone' = ndone + 1
    /\ data' = d
    /\ sheet0' = sheet
    /\ fmt0' = fmt
    /\ shift_i' = IF resolve_block_shifts(sheet, rennen, grid_label_of(d))
                  THEN NShiftSteps ELSE 0
    /\ sheet' = write_results_sheet(sheet, d, rennen)
    /\ fmt' = write_results_fmt(fmt, sheet, d, rennen)
    /\ block' = resolve_block_ret(sheet, rennen, grid_label_of(d))
    /\ rets' = warnings_of(d)
    /\ hist' = Append(hist, d)
    /\ UNCHANGED <<pc, rennen, last_result, upfail, sheetR, ncrash, gemini_2nd_run,
                   now, gemini_blocked_until, q, qcell, scan>>

NextHeats == \E d \in HeatPages : ReconcilePage(d)

SpecHeats == InitHeats /\ [][NextHeats]_vars

\* the driver results of heat h written so far, as (record, driver) indices;
\* for a position written twice only the later one
heat_results(h) ==
    {ij \in {<<i, j>> \in (1..Len(hist)) \X (1..MaxPos) :
                j <= Len(hist[i].fahrer) /\ hist[i].grid = h} :
        ~\E i2 \in (ij[1] + 1)..Len(hist), j2 \in 1..MaxPos :
            /\ j2 <= Len(hist[i2].fahrer)
            /\ hist[i2].grid = h
            /\ hist[i2].fahrer[j2].position = hist[ij[1]].fahrer[ij[2]].position}

\* block b holds the result f as it was written
holds_result(b, f) ==
    /\ cell_value(sheet, get_cell(rennen, b, f.position, "driver"))
           = resolve_driver(f.name).name
    /\ cell_value(sheet, get_cell(rennen, b, f.position, "car"))
           = resolve_car(f.auto).auto
    /\ cell_value(sheet, get_cell(rennen, b, f.position, "racetime"))
           = num_or_empty(clean_time(get(f, "zeit")).racetime)
    /\ cell_value(sheet, get_cell(rennen, b, f.position, "laps"))
           = num_or_empty(clean_time(get(f, "zeit")).laps)

\* C31: after any sequence of completely reconciled pages of one race, in any
\* order, every driver result written for heat "3" (driver, car, racetime,
\* laps at its position row) is in the one block whose label cell holds "3",
\* every result of heat "2b" in the one block labelled "2b", and the page
\* written last went to the block that holds the earlier pages of its heat.
C31_HeatInOneBlock ==
    \A h \in {S_3, S_2b} :
        heat_results(h) # {} =>
            /\ Cardinality({b \in Blocks : label_at(sheet, b) = h}) = 1
            /\ \A b \in Blocks :
                  label_at(sheet, b) = h =>
                      /\ \A ij \in heat_results(h) :
                            holds_result(b, hist[ij[1]].fahrer[ij[2]])
                      /\ data.grid = h => block = b

\* page 1 of heat "3", then heat "2b", then page 2 of heat "3": both pages of
\* heat "3" are in block 3 and heat "2b" is in block 2
C31_Witness ==
    /\ hist = <<D_3, D_2b, D_3p2>>
    /\ label_at(sheet, 3) = S_3
    /\ label_at(sheet, 2) = S_2b
    /\ holds_result(3, F_al2)
    /\ holds_result(3, F_bo20)
    /\ holds_result(2, F_bo1)

----------------------------------------------------------------------------
(* scan_channel with one task: messages with several screenshots, their
   markers, and the retry after a quota failure.  inbox is the channel
   history, newest first; hist is the list of process_image calls *)

MaxMsgs       == 2
MaxAttach     == 2
MaxQuotaFails == 2

LoopUpstream == {D_1, M_pos} \cup Failures

has_msg(h, id) == \E i \in 1..Len(h) : h[i].id = id

msg_of(h, id) == h[CHOOSE i \in 1..Len(h) : h[i].id = id]

\* an already_processed that only looks for the done marker
already_processed_done_only(h, id) == ~has_msg(h, id)

\* already_processed(message): the message is gone, or carries the done or
\* the error marker of the bot (the bot never sets the done marker)
already_processed(h, id) == ~has_msg(h, id) \/ msg_of(h, id).err

\* get_processed_count(message): the number marker, 0 without one
get_processed_count(m) == m.count

\* a loop that goes on with the next message whatever gemini_is_blocked() says
loop_continues_always(t, until) == TRUE

\* "if gemini_is_blocked(): break" does not leave the loop
loop_continues(t, until) == ~blocked_now(t, until)

\* a marker update that puts the old number back
after_image_keeps_count(m, success, goes_on) ==
    IF ~goes_on THEN <<m>>
    ELSE IF success = "ok"
    THEN (IF m.count + 1 >= m.total THEN <<>> ELSE <<m>>)
    ELSE IF success = "error" THEN <<[m EXCEPT !.count = 0, !.err = TRUE]>>
    ELSE <<m>>

\* the message after process_image returned success: << >> when it is
\* deleted, else the message with its markers.  Nothing is touched when the
\* loop is left; True: number markers removed, then delete or the new number;
\* False: number markers removed, error marker; None: nothing
after_image(m, success, goes_on) ==
    IF ~goes_on THEN <<m>>
    ELSE IF success = "ok"
    THEN (IF m.count + 1 >= m.total THEN <<>> ELSE <<[m EXCEPT !.count = m.count + 1]>>)
    ELSE IF success = "error" THEN <<[m EXCEPT !.count = 0, !.err = TRUE]>>
    ELSE <<m>>

\* the history with the message id replaced by the messages ms (none or one)
RECURSIVE replaced(_, _, _)
replaced(h, id, ms) ==
    IF h = <<>> THEN <<>>
    ELSE IF Head(h).id = id THEN ms \o Tail(h)
    ELSE <<Head(h)>> \o replaced(Tail(h), id, ms)

quota_fails == Cardinality({i \in 1..Len(hist) : hist[i].result = "quota"})

InitLoop ==
    /\ fmt = EmptySheet
    /\ block = 0
    /\ shift_i = 0
    /\ ndone = 0
    /\ hist = <<>>
    /\ last_result = outcome(NoData, "none")
    /\ fmt0 = EmptySheet
    /\ upfail = FALSE
    /\ sheetR = EmptySheet
    /\ ncrash = 0
    /\ now = 535
    /\ gemini_blocked_until = None
    /\ inbox = <<>>
    /\ blocked_call = FALSE
    /\ tasks = <<NewTask>>
    /\ processing_ids = {}
    /\ posted = 0
    /\ sheet = EmptySheet
    /\ sheet0 = EmptySheet
    /\ pc = "loop"
    /\ data = NoData
    /\ rennen = 7
    /\ gemini_2nd_run = 0
    /\ NoQuery

LoopFrame ==
    UNCHANGED <<pc, data, rennen, block, shift_i, ndone, last_result, sheet0, fmt0,
                upfail, sheetR, ncrash, gemini_2nd_run, q, qcell, rets, blocked_call>>

\* top of the while loop: gemini_is_blocked(); blocked: commands only, then
\* sleep; else channel.history(limit=50) is fetched
LoopTop ==
    /\ tasks[1].pc = "top"
    /\ gemini_blocked_until' = after_is_blocked(now, gemini_blocked_until)
    /\ tasks' = IF blocked_now(now, gemini_blocked_until)
                THEN [tasks EXCEPT ![1].pc = "sleep"]
                ELSE [tasks EXCEPT ![1].pc = "iter", ![1].todo = ids_of(inbox)]
    /\ LoopFrame
    /\ UNCHANGED <<sheet, fmt, hist, now, inbox, processing_ids, posted>>

\* the next message of the history is in processing_ids, is processed
\* already, or has all its attachments counted: continue
LoopSkip ==
    /\ tasks[1].pc = "iter"
    /\ tasks[1].todo # <<>>
    /\ LET id == Head(tasks[1].todo)
       IN  \/ id \in processing_ids
           \/ already_processed(inbox, id)
           \/ get_processed_count(msg_of(inbox, id)) >= msg_of(inbox, id).total
    /\ tasks' = [tasks EXCEPT ![1].todo = Tail(@)]
    /\ LoopFrame
    /\ UNCHANGED <<sheet, fmt, hist, now, gemini_blocked_until, inbox, processing_ids,
                   posted>>

\* process_image(message, attachments[processed_count]) begins:
\* processing_ids.add(message.id)
LoopBegin ==
    /\ tasks[1].pc = "iter"
    /\ tasks[1].todo # <<>>
    /\ LET id == Head(tasks[1].todo)
       IN  /\ id \notin processing_ids
           /\ ~already_processed(inbox, id)
           /\ get_processed_count(msg_of(inbox, id)) < msg_of(inbox, id).total
           /\ processing_ids' = processing_ids \cup {id}
           /\ tasks' = [tasks EXCEPT ![1].pc = "status", ![1].msg = id,
                                     ![1].todo = Tail(@)]
    /\ LoopFrame
    /\ UNCHANGED <<sheet, fmt, hist, now, gemini_blocked_until, inbox, posted>>

\* the rest of process_image with the upstream answer u, processing_ids.discard,
\* then in scan_channel the break or the markers
LoopFinish(u) ==
    LET id      == tasks[1].msg
        m       == msg_of(inbox, id)
        a       == analyse_image(gemini_2nd_run, u, u)
        until1  == analyse_blocked(gemini_2nd_run, u, u, now, gemini_blocked_until)
        wrote   == a.result = "ok" /\ ~missing_head(a.data) /\ ~missing_driver_key(a.data)
        success == IF wrote THEN "ok" ELSE IF a.result = "quota" THEN "quota" ELSE "error"
        goes_on == loop_continues(now, until1)
    IN  /\ tasks[1].pc = "status"
        /\ quota_failed(u) => quota_fails < MaxQuotaFails
        /\ IF a.result = "ok"
           THEN /\ sheet' = write_results_sheet(sheet, a.data, rennen)
                /\ fmt' = write_results_fmt(fmt, sheet, a.data, rennen)
           ELSE UNCHANGED <<sheet, fmt>>
        /\ hist' = Append(hist, [msg |-> id, idx |-> get_processed_count(m),
                                 result |-> success])
        /\ processing_ids' = processing_ids \ {id}
        /\ gemini_blocked_until' = after_is_blocked(now, until1)
        /\ inbox' = replaced(inbox, id, after_image(m, success, goes_on))
        /\ tasks' = [tasks EXCEPT ![1].pc = IF goes_on THEN "iter" ELSE "sleep",
                                  ![1].msg = 0]
        /\ LoopFrame
        /\ UNCHANGED <<now, posted>>

\* end of the history: await asyncio.sleep(POLL_INTERVAL)
LoopEnd ==
    /\ tasks[1].pc = "iter"
    /\ tasks[1].todo = <<>>
    /\ tasks' = [tasks EXCEPT ![1].pc = "sleep"]
    /\ LoopFrame
    /\ UNCHANGED <<sheet, fmt, hist, now, gemini_blocked_until, inbox, processing_ids,
                   posted>>

\* the sleep is over
LoopWake ==
    /\ tasks[1].pc = "sleep"
    /\ tasks' = [tasks EXCEPT ![1].pc = "top"]
    /\ LoopFrame
    /\ UNCHANGED <<sheet, fmt, hist, now, gemini_blocked_until, inbox, processing_ids,
                   posted>>

\* time passes while the block is on: a minute close to its end, else up to
\* the last minute of the block or to its end
LoopTick ==
    /\ blocked_now(now, gemini_blocked_until)
    /\ now' \in {t \in {now + 1, gemini_blocked_until - 1, gemini_blocked_until} :
                    /\ t > now
                    /\ (t = now + 1) => (gemini_blocked_until - now <= ShortBlock)}
    /\ LoopFrame
    /\ UNCHANGED <<sheet, fmt, hist, gemini_blocked_until, inbox, tasks, processing_ids,
                   posted>>

\* a user posts a message with n screenshots; rets keeps n for each message id
UserPost(n) ==
    /\ posted < MaxMsgs
    /\ posted' = posted + 1
    /\ inbox' = <<[kind |-> "image", id |-> posted + 1, total |-> n, count |-> 0,
                   err |-> FALSE]>> \o inbox
    /\ rets' = Append(rets, n)
    /\ UNCHANGED <<pc, data, rennen, block, shift_i, ndone, last_result, sheet0, fmt0,
                   upfail, sheetR, ncrash, gemini_2nd_run, q, qcell, blocked_call,
                   sheet, fmt, hist, now, gemini_blocked_until, tasks, processing_ids>>

\* the steps of the task
LoopStep ==
    \/ LoopTop
    \/ LoopSkip
    \/ LoopBegin
    \/ \E u \in LoopUpstream : LoopFinish(u)
    \/ LoopEnd
    \/ LoopWake

NextLoop ==
    \/ LoopStep
    \/ LoopTick
    \/ \E n \in 1..MaxAttach : UserPost(n)

SpecLoop == InitLoop /\ [][NextLoop]_vars

\* the task keeps running and time keeps passing
SpecLoopFair == SpecLoop /\ WF_vars(LoopStep) /\ WF_vars(LoopTick)

\* the process_image calls for attachment k of the message id so far
attempts(id, k) == Cardinality({i \in 1..Len(hist) : hist[i].msg = id /\ hist[i].idx = k})

\* the last process_image call for the message id met a quota failure at
\* attachment k
quota_pending(id, k) ==
    \E i \in 1..Len(hist) :
        /\ hist[i] = [msg |-> id, idx |-> k, result |-> "quota"]
        /\ \A j \in (i + 1)..Len(hist) : hist[j].msg # id

\* a process_image call ends with a quota failure: the markers of the
\* message stay as they were, its id leaves processing_ids, the block is on
\* and the pass over the history is over
quota_step ==
    (Len(hist') = Len(hist) + 1 /\ hist'[Len(hist')].result = "quota") =>
        LET id == hist'[Len(hist')].msg
        IN  /\ has_msg(inbox', id)
            /\ msg_of(inbox', id) = msg_of(inbox, id)
            /\ ~msg_of(inbox', id).err
            /\ get_processed_count(msg_of(inbox', id)) = hist'[Len(hist')].idx
            /\ id \notin processing_ids'
            /\ blocked_now(now', gemini_blocked_until')
            /\ tasks'[1].pc = "sleep"

C35_NoRetryAfterError ==
    \A i \in 1..Len(hist) :
        hist[i].result = "error" =>
            /\ has_msg(inbox, hist[i].msg)
            /\ msg_of(inbox, hist[i].msg).err
            /\ tasks[1].msg # hist[i].msg
            /\ \A j \in (i + 1)..Len(hist) : hist[j].msg # hist[i].msg

\* the second screenshot of a message of two has failed, its first had been
\* reconciled; the loop has since gone on to another message
C35_Witness ==
    /\ Len(hist) >= 3
    /\ hist[1] = [msg |-> 1, idx |-> 0, result |-> "ok"]
    /\ hist[2] = [msg |-> 1, idx |-> 1, result |-> "error"]
    /\ hist[3].msg = 2
    /\ msg_of(inbox, 1).err

\* the successful process_image calls for the message id among the first n calls
oks(id, n) == {i \in 1..n : hist[i].msg = id /\ hist[i].result = "ok"}

\* attachments of a message are taken in index order, each reconciled at
\* most once, and the message is deleted only when all are reconciled
in_order_and_once ==
    /\ \A i \in 1..Len(hist) : hist[i].idx = Cardinality(oks(hist[i].msg, i - 1))
    /\ \A i, j \in 1..Len(hist) :
          (i # j /\ hist[i].msg = hist[j].msg /\ hist[i].idx = hist[j].idx)
              => ~(hist[i].result = "ok" /\ hist[j].result = "ok")
    /\ \A id \in 1..posted :
          /\ ~has_msg(inbox, id) => Cardinality(oks(id, Len(hist))) = rets[id]
          /\ has_msg(inbox, id) => Cardinality(oks(id, Len(hist))) < rets[id]

====
